---- MODULE Spec2Model ----
(***************************************************************************)
(* Streaming transcoders of the router plugins: the Anthropic-style SSE    *)
(* stream handler (claude-anthropic, kimi-anthropic), the Responses/Codex  *)
(* stream handler (chatgpt-oauth) and the Cloud-Code stream handler        *)
(* (gemini-cli).  One upstream connection is modelled: the upstream        *)
(* delivers byte chunks, the handler frames them into lines, dispatches    *)
(* the events and enqueues canonical chunks on the output stream.          *)
(*                                                                         *)
(* Text is a sequence of atoms: an atom stands for a run of characters     *)
(* ("da" and "ta:" are the two halves of the prefix "data:", SP a blank,   *)
(* LF and CR the line ends) or for one JSON text (the atom carries the     *)
(* value JSON.parse gives for it).  The `created` timestamp of a chunk and *)
(* the Date.now() part of a generated id are left out of the records.      *)
(***************************************************************************)
EXTENDS Integers, Sequences, FiniteSets, TLC

VARIABLES
  transformer,  \* which plugin handles this connection
  pc,           \* "reading", "closed" (clean end) or "errored"
  buffer,       \* `buffer` of the read loop: the carried partial line
  state,        \* closure variables of the Anthropic-style handler
  codex,        \* closure variables of the Responses/Codex handler
  out,          \* records enqueued on the output stream, in order
  upLine,       \* upstream side: atoms sent since the last line feed
  fed,          \* upstream side: events sent on complete data lines, ignored ones left out
  pending,      \* upstream side: what is left to deliver of a scripted stream
  arg,          \* the argument a pure function of the plugins is called with
  result,       \* what the calls made on it returned, in call order
  streams,      \* the closures of the streams open on one transformer instance
  controllerCalls \* the error and close calls made on the controller, in order

vars ==
  <<transformer, pc, buffer, state, codex, out, upLine, fed, pending, arg, result, streams,
    controllerCalls>>

----------------------------------------------------------------------------
(* Bounds *)

\* Longest history of effective upstream events explored.
MaxEvents == 3

----------------------------------------------------------------------------
(* JavaScript values *)

null == "null"
undefined == "undefined"

Get(r, f) == IF f \in DOMAIN r THEN r[f] ELSE undefined

\* a || b for strings: "", null and undefined are falsy
OrStr(a, b) == IF a \in {"", null, undefined} THEN b ELSE a

\* a ?? b
Nullish(a, b) == IF a \in {null, undefined} THEN b ELSE a

EmptyObject == <<>>

----------------------------------------------------------------------------
(* Wire atoms and lines *)

Ch(c) == [ch |-> c]
Json(v) == [json |-> v]

LF == Ch("LF")
CR == Ch("CR")
SP == Ch("SP")

DataPrefix == <<Ch("da"), Ch("ta:")>>
EventPrefix == <<Ch("event:")>>

IsSpace(a) == a \in {SP, CR, LF}

StartsWith(line, prefix) ==
  /\ Len(line) >= Len(prefix)
  /\ SubSeq(line, 1, Len(prefix)) = prefix

RECURSIVE TrimStart(_)
TrimStart(s) ==
  IF s # <<>> /\ IsSpace(Head(s)) THEN TrimStart(Tail(s)) ELSE s

RECURSIVE TrimEnd(_)
TrimEnd(s) ==
  IF s # <<>> /\ IsSpace(s[Len(s)]) THEN TrimEnd(SubSeq(s, 1, Len(s) - 1)) ELSE s

Trim(s) == TrimEnd(TrimStart(s))

\* line.slice(n) with n counted in atoms of the prefix
Slice(line, n) == SubSeq(line, n + 1, Len(line))

\* text.split("\n"): the segments between line feeds, the last one included
RECURSIVE SplitAt(_, _, _)
SplitAt(s, cur, acc) ==
  IF s = <<>> THEN Append(acc, cur)
  ELSE IF Head(s) = LF THEN SplitAt(Tail(s), <<>>, Append(acc, cur))
  ELSE SplitAt(Tail(s), Append(cur, Head(s)), acc)

Split(s) == SplitAt(s, <<>>, <<>>)

\* variant: nothing is carried over to the next read
LastDropped(ls) == <<>>

\* lines.pop(): the last segment and the ones before it
Last(ls) == ls[Len(ls)]
Front(ls) == SubSeq(ls, 1, Len(ls) - 1)

\* JSON.parse(text): the value, or a thrown SyntaxError
JsonParses(text) == Len(text) = 1 /\ "json" \in DOMAIN text[1]
JsonValue(text) == text[1].json

JsonNull == [jsonNull |-> TRUE]
IsObject(v) == "jsonNull" \notin DOMAIN v

----------------------------------------------------------------------------
(* Canonical chunks *)

DONE == [object |-> "[DONE]"]

GeneratedId == "chatcmpl-now"

Chunk(id, model, delta, finish) ==
  [id |-> id, object |-> "chat.completion.chunk", model |-> model,
   choices |-> <<[index |-> 0, delta |-> delta, finish_reason |-> finish]>>]

UsageChunk(id, model, delta, finish, usage) ==
  [id |-> id, object |-> "chat.completion.chunk", model |-> model,
   choices |-> <<[index |-> 0, delta |-> delta, finish_reason |-> finish]>>,
   usage |-> usage]

IsChunk(r) == r.object = "chat.completion.chunk"
Delta(r) == r.choices[1].delta
FinishReason(r) == r.choices[1].finish_reason

----------------------------------------------------------------------------
(* Anthropic-style stream handler (claude-anthropic) *)

InitState ==
  [messageId |-> "", model |-> "", currentBlockIndex |-> 0,
   currentBlockType |-> null, toolCallsBuffer |-> <<>>,
   inputTokens |-> 0, outputTokens |-> 0, hasEmittedRole |-> FALSE]

\* variant: stop reasons pass through unmapped
MapStopReasonIdentity(stopReason) ==
  IF stopReason \in {"", null, undefined} THEN null ELSE stopReason

\* variant: the table has no row for end_turn, and unknown reasons map to null
MapStopReasonNoEndTurn(stopReason) ==
  CASE stopReason = "max_tokens" -> "length"
    [] stopReason = "tool_use" -> "tool_calls"
    [] stopReason = "stop_sequence" -> "stop"
    [] OTHER -> null

MapStopReason(stopReason) ==
  CASE stopReason = "end_turn" -> "stop"
    [] stopReason = "max_tokens" -> "length"
    [] stopReason = "tool_use" -> "tool_calls"
    [] stopReason = "stop_sequence" -> "stop"
    [] OTHER -> IF stopReason \in {"", null, undefined} THEN null ELSE stopReason

StateItem(st) == [_state |-> st]
IsStateItem(c) == "_state" \in DOMAIN c

\* case "message_start"
OnMessageStart(event, st) ==
  LET message == IF "message" \in DOMAIN event THEN event.message ELSE EmptyObject
      usage == IF "usage" \in DOMAIN message THEN message.usage ELSE EmptyObject
      st1 == [st EXCEPT
                !.messageId = OrStr(Get(message, "id"), GeneratedId),
                !.model = OrStr(Get(message, "model"), ""),
                !.inputTokens = IF "input_tokens" \in DOMAIN usage
                                THEN usage.input_tokens ELSE 0]
      st2 == [st1 EXCEPT !.hasEmittedRole = TRUE]
  IN <<Chunk(st1.messageId, st1.model, [role |-> "assistant", content |-> ""], null),
       StateItem(st2)>>

\* case "content_block_start"
OnContentBlockStart(event, st) ==
  LET block == IF "content_block" \in DOMAIN event THEN event.content_block ELSE EmptyObject
      st1 == [st EXCEPT
                !.currentBlockIndex = IF "index" \in DOMAIN event
                                      THEN event.index ELSE st.currentBlockIndex,
                !.currentBlockType = Get(block, "type")]
      entry == [id |-> Get(block, "id"), type |-> "function",
                function |-> [name |-> Get(block, "name"), arguments |-> ""]]
      st2 == [st1 EXCEPT !.toolCallsBuffer = Append(st1.toolCallsBuffer, entry)]
  IN IF Get(block, "type") = "tool_use"
     THEN <<Chunk(st2.messageId, st2.model,
                  [tool_calls |-> <<[index |-> Len(st2.toolCallsBuffer) - 1,
                                     id |-> entry.id, type |-> "function",
                                     function |-> entry.function]>>],
                  null),
            StateItem(st2)>>
     ELSE <<StateItem(st1)>>

\* variant: a text fragment is emitted as reasoning
TextDeltaAsReasoning(delta, st) ==
  <<Chunk(st.messageId, st.model,
          [reasoning_content |-> OrStr(Get(delta, "text"), "")], null)>>

\* delta.type === "text_delta"
TextDelta(delta, st) ==
  <<Chunk(st.messageId, st.model, [content |-> OrStr(Get(delta, "text"), "")], null)>>

\* variant: a thinking fragment is emitted as content
ThinkingDeltaAsContent(delta, st) ==
  <<Chunk(st.messageId, st.model, [content |-> OrStr(Get(delta, "thinking"), "")], null)>>

\* delta.type === "thinking_delta"
ThinkingDelta(delta, st) ==
  <<Chunk(st.messageId, st.model,
          [reasoning_content |-> OrStr(Get(delta, "thinking"), "")], null)>>

\* variant: the fragment goes to the first entry of the buffer
AppendArgumentsToFirst(toolCallsBuffer, toolIndex, fragment) ==
  [toolCallsBuffer EXCEPT ![1].function.arguments = @ \o fragment]

\* delta.type === "input_json_delta": the buffer after the fragment is appended
AppendArguments(toolCallsBuffer, toolIndex, fragment) ==
  [toolCallsBuffer EXCEPT ![toolIndex + 1].function.arguments = @ \o fragment]

\* variant: every fragment chunk names the first tool call
InputJsonDeltaForFirst(delta, st, toolIndex) ==
  <<Chunk(st.messageId, st.model,
          [tool_calls |-> <<[index |-> 0,
                             function |-> [arguments |-> OrStr(Get(delta, "partial_json"), "")]]>>],
          null)>>

\* delta.type === "input_json_delta": the chunk for the fragment
InputJsonDelta(delta, st, toolIndex) ==
  <<Chunk(st.messageId, st.model,
          [tool_calls |-> <<[index |-> toolIndex,
                             function |-> [arguments |-> OrStr(Get(delta, "partial_json"), "")]]>>],
          null)>>

\* case "content_block_delta"
OnContentBlockDelta(event, st) ==
  LET delta == IF "delta" \in DOMAIN event THEN event.delta ELSE EmptyObject
      dtype == Get(delta, "type")
      toolIndex == Len(st.toolCallsBuffer) - 1
      st1 == [st EXCEPT !.toolCallsBuffer =
                AppendArguments(@, toolIndex, OrStr(Get(delta, "partial_json"), ""))]
  IN CASE dtype = "text_delta" -> TextDelta(delta, st) \o <<StateItem(st)>>
       [] dtype = "thinking_delta" -> ThinkingDelta(delta, st) \o <<StateItem(st)>>
       [] dtype = "input_json_delta" /\ toolIndex >= 0 ->
            InputJsonDelta(delta, st1, toolIndex) \o <<StateItem(st1)>>
       [] OTHER -> <<StateItem(st)>>

\* variant: the end of a block empties the tool-call buffer
OnContentBlockStopClearsBuffer(event, st) ==
  <<StateItem([st EXCEPT !.currentBlockType = null, !.toolCallsBuffer = <<>>])>>

\* variant: the end of a block resets the block index
OnContentBlockStopResetsIndex(event, st) ==
  <<StateItem([st EXCEPT !.currentBlockType = null, !.currentBlockIndex = 0])>>

\* case "content_block_stop"
OnContentBlockStop(event, st) ==
  <<StateItem([st EXCEPT !.currentBlockType = null])>>

\* variant: the total is the difference of the two counts
UsageDifference(st) ==
  [prompt_tokens |-> st.inputTokens,
   completion_tokens |-> st.outputTokens,
   total_tokens |-> st.inputTokens - st.outputTokens]

\* the usage object of the chunk emitted for message_delta
Usage(st) ==
  [prompt_tokens |-> st.inputTokens,
   completion_tokens |-> st.outputTokens,
   total_tokens |-> st.inputTokens + st.outputTokens]

\* case "message_delta"
OnMessageDelta(event, st) ==
  LET messageDelta == IF "delta" \in DOMAIN event THEN event.delta ELSE EmptyObject
      usage == IF "usage" \in DOMAIN event THEN event.usage ELSE EmptyObject
      st1 == [st EXCEPT
                !.outputTokens = IF "output_tokens" \in DOMAIN usage /\ usage.output_tokens # 0
                                 THEN usage.output_tokens ELSE st.outputTokens]
  IN <<UsageChunk(st1.messageId, st1.model, EmptyObject,
                  MapStopReason(Get(messageDelta, "stop_reason")),
                  Usage(st1)),
       StateItem(st1)>>

\* variant: message_stop emits the sentinel itself
OnMessageStopEmitsDone(event, st) == <<DONE>>

\* case "message_stop"
OnMessageStop(event, st) == <<>>

\* _processSSEEvent(event, state): the chunks returned, state items included
ProcessSSEEvent(event, st) ==
  LET eventType == Get(event, "type")
  IN CASE eventType = "message_start" -> OnMessageStart(event, st)
       [] eventType = "content_block_start" -> OnContentBlockStart(event, st)
       [] eventType = "content_block_delta" -> OnContentBlockDelta(event, st)
       [] eventType = "content_block_stop" -> OnContentBlockStop(event, st)
       [] eventType = "message_delta" -> OnMessageDelta(event, st)
       [] eventType = "message_stop" -> OnMessageStop(event, st)
       [] OTHER -> <<>>

\* the write-back of one returned state item into the closure variables
WriteBack(cl, s) ==
  [messageId |-> OrStr(s.messageId, cl.messageId),
   model |-> OrStr(s.model, cl.model),
   currentBlockIndex |-> s.currentBlockIndex,
   currentBlockType |-> Nullish(s.currentBlockType, cl.currentBlockType),
   toolCallsBuffer |-> s.toolCallsBuffer,
   inputTokens |-> s.inputTokens,
   outputTokens |-> s.outputTokens,
   hasEmittedRole |-> s.hasEmittedRole]

\* variant: a chunk is put in front of the chunks enqueued before it
RECURSIVE EnqueueChunksNewestFirst(_, _)
EnqueueChunksNewestFirst(chunks, acc) ==
  IF chunks = <<>> THEN acc
  ELSE LET c == Head(chunks)
       IN EnqueueChunksNewestFirst(Tail(chunks),
            IF IsStateItem(c)
            THEN [acc EXCEPT !.state = WriteBack(acc.state, c._state)]
            ELSE [acc EXCEPT !.out = <<c>> \o acc.out])

\* for (const chunk of chunks): write a state item back, enqueue anything else
RECURSIVE EnqueueChunks(_, _)
EnqueueChunks(chunks, acc) ==
  IF chunks = <<>> THEN acc
  ELSE LET c == Head(chunks)
       IN EnqueueChunks(Tail(chunks),
            IF IsStateItem(c)
            THEN [acc EXCEPT !.state = WriteBack(acc.state, c._state)]
            ELSE [acc EXCEPT !.out = Append(acc.out, c)])

\* variant: a payload that does not parse is reported downstream as content
ClaudeLineReportsBadJson(line, acc) ==
  IF StartsWith(line, EventPrefix) THEN acc
  ELSE IF ~StartsWith(line, DataPrefix) THEN acc
  ELSE LET jsonStr == Trim(Slice(line, Len(DataPrefix)))
       IN IF jsonStr = <<>> THEN acc
          ELSE IF ~JsonParses(jsonStr) \/ ~IsObject(JsonValue(jsonStr))
          THEN [acc EXCEPT !.out = Append(@, Chunk(acc.state.messageId, acc.state.model,
                                                  [content |-> "[parse error]"], null))]
          ELSE EnqueueChunks(ProcessSSEEvent(JsonValue(jsonStr), acc.state), acc)

\* the body of `for (const line of lines)` for one line
ClaudeLine(line, acc) ==
  IF StartsWith(line, EventPrefix) THEN acc
  ELSE IF ~StartsWith(line, DataPrefix) THEN acc
  ELSE LET jsonStr == Trim(Slice(line, Len(DataPrefix)))
       IN IF jsonStr = <<>> THEN acc
          ELSE IF ~JsonParses(jsonStr) THEN acc          \* SyntaxError, caught
          ELSE IF ~IsObject(JsonValue(jsonStr)) THEN acc \* TypeError on event.type, caught
          ELSE EnqueueChunks(ProcessSSEEvent(JsonValue(jsonStr), acc.state), acc)

RECURSIVE ClaudeLines(_, _)
ClaudeLines(lines, acc) ==
  IF lines = <<>> THEN acc
  ELSE ClaudeLines(Tail(lines), ClaudeLine(Head(lines), acc))

----------------------------------------------------------------------------
(* Responses/Codex stream handler (chatgpt-oauth) *)

InitCodex ==
  [messageId |-> GeneratedId, model |-> "gpt-5.2-codex",
   hasStarted |-> FALSE, toolCallIndex |-> -1]

IsInternalItem(c) == "_internal" \in DOMAIN c

\* convertToOpenAIChunks(data, messageId, model, hasStarted, toolCallIndex)
ConvertToOpenAIChunks(data, messageId, model, hasStarted, toolCallIndex) ==
  LET type == Get(data, "type")
      response == IF "response" \in DOMAIN data THEN data.response ELSE EmptyObject
      starting == type \in {"response.created", "response.in_progress"}
      responseModel == OrStr(Get(response, "model"), "")
      item == IF "item" \in DOMAIN data THEN data.item ELSE EmptyObject
      fragment == OrStr(Get(data, "delta"), "")
      newToolCallIndex == toolCallIndex + 1
      modelPart ==
        IF starting /\ responseModel # ""
        THEN <<[_internal |-> TRUE, model |-> responseModel, hasStarted |-> TRUE]>>
        ELSE <<>>
      rolePart ==
        IF ~hasStarted /\ starting
        THEN <<Chunk(messageId, OrStr(responseModel, model),
                     [role |-> "assistant", content |-> ""], null),
               [_internal |-> TRUE, hasStarted |-> TRUE]>>
        ELSE <<>>
      textPart ==
        IF type = "response.output_text.delta"
        THEN <<Chunk(messageId, model, [content |-> fragment], null)>>
        ELSE <<>>
      reasoningPart ==
        IF type = "response.reasoning_summary_text.delta"
        THEN <<Chunk(messageId, model, [reasoning_content |-> fragment], null)>>
        ELSE <<>>
      toolStartPart ==
        IF type = "response.output_item.added" /\ Get(item, "type") = "function_call"
        THEN <<Chunk(messageId, model,
                     [tool_calls |-> <<[index |-> newToolCallIndex,
                                        id |-> OrStr(Get(item, "call_id"),
                                                     OrStr(Get(item, "id"), "call_now")),
                                        type |-> "function",
                                        function |-> [name |-> OrStr(Get(item, "name"), ""),
                                                      arguments |-> ""]]>>],
                     null),
               [_internal |-> TRUE, toolCallIndex |-> newToolCallIndex]>>
        ELSE <<>>
      toolArgsPart ==
        IF type = "response.function_call_arguments.delta" /\ toolCallIndex >= 0
        THEN <<Chunk(messageId, model,
                     [tool_calls |-> <<[index |-> toolCallIndex,
                                        function |-> [arguments |-> fragment]]>>],
                     null)>>
        ELSE <<>>
  IN modelPart \o rolePart \o textPart \o reasoningPart \o toolStartPart \o toolArgsPart

\* the write-back of one _internal item into the closure variables
CodexWriteBack(cl, f) ==
  [messageId |-> cl.messageId,
   model |-> IF "model" \in DOMAIN f /\ f.model # "" THEN f.model ELSE cl.model,
   hasStarted |-> IF "hasStarted" \in DOMAIN f THEN f.hasStarted ELSE cl.hasStarted,
   toolCallIndex |-> IF "toolCallIndex" \in DOMAIN f THEN f.toolCallIndex
                     ELSE cl.toolCallIndex]

\* for (const chunkData of openAIChunks)
RECURSIVE CodexEnqueue(_, _)
CodexEnqueue(chunks, acc) ==
  IF chunks = <<>> THEN acc
  ELSE LET c == Head(chunks)
       IN CodexEnqueue(Tail(chunks),
            IF IsInternalItem(c)
            THEN [acc EXCEPT !.codex = CodexWriteBack(acc.codex, c)]
            ELSE [acc EXCEPT !.out = Append(acc.out, c)])

\* the body of `for (const line of lines)` for one line
CodexLine(line, acc) ==
  IF Trim(line) = <<>> THEN acc
  ELSE IF StartsWith(line, EventPrefix \o <<SP>>) THEN acc
  ELSE IF ~StartsWith(line, DataPrefix \o <<SP>>) THEN acc
  ELSE LET dataStr == Trim(Slice(line, Len(DataPrefix)))
       IN IF dataStr = <<Ch("[DONE]")>> THEN acc
          ELSE IF ~JsonParses(dataStr) THEN acc          \* SyntaxError, caught
          ELSE IF ~IsObject(JsonValue(dataStr)) THEN acc \* TypeError on data.type, caught
          ELSE CodexEnqueue(
                 ConvertToOpenAIChunks(JsonValue(dataStr), acc.codex.messageId,
                                       acc.codex.model, acc.codex.hasStarted,
                                       acc.codex.toolCallIndex),
                 acc)

RECURSIVE CodexLines(_, _)
CodexLines(lines, acc) ==
  IF lines = <<>> THEN acc
  ELSE CodexLines(Tail(lines), CodexLine(Head(lines), acc))

\* buffer.split(/\r?\n/): a CR right before the line feed belongs to the separator
StripCR(line) ==
  IF line # <<>> /\ line[Len(line)] = CR THEN SubSeq(line, 1, Len(line) - 1) ELSE line

SplitCRLF(s) ==
  LET ls == Split(s)
  IN [i \in 1..Len(ls) |-> IF i < Len(ls) THEN StripCR(ls[i]) ELSE ls[i]]

\* variant: the final chunk reports tool_calls once a tool call was announced
CodexFinalChunkByTools(cl) ==
  Chunk(cl.messageId, cl.model, EmptyObject,
        IF cl.toolCallIndex >= 0 THEN "tool_calls" ELSE "stop")

\* the final chunk enqueued at end of stream, before the sentinel
CodexFinalChunk(cl) == Chunk(cl.messageId, cl.model, EmptyObject, "stop")

----------------------------------------------------------------------------
(* Cloud-Code stream handler (gemini-cli) *)

RECURSIVE JoinLines(_)
JoinLines(texts) ==
  IF texts = <<>> THEN ""
  ELSE IF Len(texts) = 1 THEN texts[1]
  ELSE texts[1] \o "\n" \o JoinLines(Tail(texts))

RECURSIVE TextsOf(_)
TextsOf(parts) ==
  IF parts = <<>> THEN <<>>
  ELSE (IF OrStr(Get(Head(parts), "text"), "") # "" THEN <<Head(parts).text>> ELSE <<>>)
       \o TextsOf(Tail(parts))

RECURSIVE ToolCallsOf(_)
ToolCallsOf(parts) ==
  IF parts = <<>> THEN <<>>
  ELSE (IF "functionCall" \in DOMAIN Head(parts)
        THEN <<[id |-> OrStr(Get(Head(parts).functionCall, "id"), "tool_random"),
                type |-> "function",
                function |-> [name |-> Get(Head(parts).functionCall, "name"),
                              arguments |-> OrStr(Get(Head(parts).functionCall, "args"), "{}")]]>>
        ELSE <<>>)
       \o ToolCallsOf(Tail(parts))

\* what the try block of processLine reads without a TypeError
GeminiReadable(chunk) ==
  /\ "response" \in DOMAIN chunk
  /\ "candidates" \in DOMAIN chunk.response
  /\ chunk.response.candidates # <<>>
  /\ "content" \in DOMAIN chunk.response.candidates[1]
  /\ "parts" \in DOMAIN chunk.response.candidates[1].content
  /\ "usageMetadata" \in DOMAIN chunk.response

LowerCase(s) ==
  CASE s = "STOP" -> "stop"
    [] s = "MAX_TOKENS" -> "max_tokens"
    [] OTHER -> s

\* the record `res` built by processLine
GeminiChunk(chunk) ==
  LET r == chunk.response
      cand == r.candidates[1]
      tool_calls == ToolCallsOf(cand.content.parts)
      finish == OrStr(Get(cand, "finishReason"), "")
      candIndex == IF "index" \in DOMAIN cand THEN cand.index ELSE 0
      delta == IF tool_calls # <<>>
               THEN [role |-> "assistant",
                     content |-> JoinLines(TextsOf(cand.content.parts)),
                     tool_calls |-> tool_calls]
               ELSE [role |-> "assistant",
                     content |-> JoinLines(TextsOf(cand.content.parts))]
  IN [id |-> OrStr(Get(r, "responseId"), ""),
      object |-> "chat.completion.chunk",
      model |-> OrStr(Get(r, "modelVersion"), ""),
      choices |-> <<[index |-> IF candIndex # 0 \/ Len(tool_calls) > 0 THEN 1 ELSE 0,
                     delta |-> delta,
                     finish_reason |-> IF finish = "" THEN null ELSE LowerCase(finish)]>>,
      usage |-> [completion_tokens |-> Get(r.usageMetadata, "candidatesTokenCount"),
                 prompt_tokens |-> Get(r.usageMetadata, "promptTokenCount"),
                 total_tokens |-> Get(r.usageMetadata, "totalTokenCount")]]

\* processLine(line, controller)
GeminiLine(line, acc) ==
  IF ~StartsWith(line, DataPrefix \o <<SP>>) THEN acc
  ELSE LET chunkStr == Trim(Slice(line, Len(DataPrefix) + 1))
       IN IF chunkStr = <<>> THEN acc
          ELSE IF ~JsonParses(chunkStr) THEN acc           \* SyntaxError, caught and logged
          ELSE IF ~IsObject(JsonValue(chunkStr)) THEN acc  \* TypeError, caught and logged
          ELSE IF ~GeminiReadable(JsonValue(chunkStr)) THEN acc  \* TypeError, caught and logged
          ELSE [acc EXCEPT !.out = Append(acc.out, GeminiChunk(JsonValue(chunkStr)))]

RECURSIVE GeminiLines(_, _)
GeminiLines(lines, acc) ==
  IF lines = <<>> THEN acc
  ELSE GeminiLines(Tail(lines), GeminiLine(Head(lines), acc))

----------------------------------------------------------------------------
(* The upstream: the payloads it may send and the byte deliveries it makes *)

Transformers == {"claude", "chatgpt", "gemini"}

MessageStart(tokens) ==
  [type |-> "message_start",
   message |-> [id |-> "msg_1", model |-> "m1", usage |-> [input_tokens |-> tokens]]]

BareMessageStart == [type |-> "message_start"]

BlockStart(index, block) ==
  [type |-> "content_block_start", index |-> index, content_block |-> block]

ToolUse(id, name) == [type |-> "tool_use", id |-> id, name |-> name]

BlockDelta(index, delta) ==
  [type |-> "content_block_delta", index |-> index, delta |-> delta]

MessageDelta(reason, tokens) ==
  [type |-> "message_delta", delta |-> [stop_reason |-> reason],
   usage |-> [output_tokens |-> tokens]]

TextHi == BlockDelta(0, [type |-> "text_delta", text |-> "Hi"])
TextThere == BlockDelta(0, [type |-> "text_delta", text |-> " there"])
EndTurn == MessageDelta("end_turn", 2)
UsageOnly == [type |-> "message_delta", usage |-> [output_tokens |-> 1]]

\* Anthropic events that change the stream state or emit a chunk
AnthropicEffective ==
  { MessageStart(1), BareMessageStart,
    BlockStart(0, ToolUse("t1", "get_weather")),
    BlockStart(1, ToolUse("t2", "get_time")),
    TextHi, TextThere,
    BlockDelta(0, [type |-> "thinking_delta", thinking |-> "hm"]),
    BlockDelta(0, [type |-> "input_json_delta", partial_json |-> "{\"city\":"]),
    BlockDelta(0, [type |-> "input_json_delta", partial_json |-> "\"Seoul\"}"]),
    BlockDelta(1, [type |-> "input_json_delta", partial_json |-> "{}"]),
    EndTurn, UsageOnly }

\* Anthropic events the handler has no effect for
AnthropicIgnored ==
  { [type |-> "content_block_stop", index |-> 0],
    [type |-> "message_stop"],
    [type |-> "ping"],
    [type |-> "error", error |-> [type |-> "overloaded_error"]],
    [type |-> "future_event"],
    [type |-> "content_block_start"],
    BlockDelta(0, [type |-> "signature_delta", signature |-> "sig"]) }

CodexTextHi == [type |-> "response.output_text.delta", delta |-> "Hi"]

CodexEffective ==
  { [type |-> "response.created", response |-> [model |-> "gpt-x"]],
    [type |-> "response.in_progress"],
    CodexTextHi,
    [type |-> "response.output_text.delta", delta |-> " there"],
    [type |-> "response.reasoning_summary_text.delta", delta |-> "hm"],
    [type |-> "response.output_item.added",
     item |-> [type |-> "function_call", call_id |-> "call_1", name |-> "get_weather"]],
    [type |-> "response.function_call_arguments.delta", delta |-> "{}"] }

CodexIgnored ==
  { [type |-> "response.completed"],
    [type |-> "response.output_item.added", item |-> [type |-> "message"]] }

GeminiResponse(parts, extra, usage) ==
  [response |-> [candidates |-> <<[content |-> [parts |-> parts]] @@ extra>>,
                 responseId |-> "r1", modelVersion |-> "g1",
                 usageMetadata |-> usage]]

GeminiUsage(p, c) ==
  [promptTokenCount |-> p, candidatesTokenCount |-> c, totalTokenCount |-> p + c]

GeminiTextHi == GeminiResponse(<<[text |-> "Hi"]>>, EmptyObject, GeminiUsage(1, 1))

GeminiEffective ==
  { GeminiTextHi,
    GeminiResponse(<<[text |-> " there"]>>, [finishReason |-> "STOP"], GeminiUsage(1, 2)),
    GeminiResponse(<<[functionCall |-> [name |-> "get_weather", args |-> "{\"city\":\"Seoul\"}"]]>>,
                   EmptyObject, GeminiUsage(1, 2)) }

GeminiIgnored ==
  { [response |-> [candidates |-> <<>>]],
    [error |-> [code |-> 429]] }

Effective(t) ==
  CASE t = "claude" -> AnthropicEffective
    [] t = "chatgpt" -> CodexEffective
    [] t = "gemini" -> GeminiEffective

Ignored(t) ==
  CASE t = "claude" -> AnthropicIgnored
    [] t = "chatgpt" -> CodexIgnored
    [] t = "gemini" -> GeminiIgnored

\* payloads also sent split over two deliveries, unterminated, or in a full SSE frame
Framed(t) ==
  CASE t = "claude" -> {TextThere, EndTurn}
    [] t = "chatgpt" -> {CodexTextHi, [type |-> "response.completed"]}
    [] t = "gemini" -> {GeminiTextHi}

\* pairs of payloads sent in one delivery
Pairs(t) ==
  CASE t = "claude" -> {<<TextHi, TextThere>>, <<EndTurn, [type |-> "message_stop"]>>}
    [] t = "chatgpt" -> {<<CodexTextHi, [type |-> "response.completed"]>>}
    [] t = "gemini" -> {}

DataLine(v) == DataPrefix \o <<SP, Json(v)>>
EventLine == EventPrefix \o <<SP, Ch("name")>>

\* deliveries that end with a line feed
WholeDeliveries(t) ==
       { DataLine(v) \o <<LF>> : v \in Effective(t) \cup Ignored(t) }
  \cup { EventLine \o <<LF>> \o DataLine(v) \o <<LF, LF>> : v \in Framed(t) }
  \cup { DataLine(p[1]) \o <<LF>> \o DataLine(p[2]) \o <<LF>> : p \in Pairs(t) }
  \cup { DataLine(v) \o <<CR, LF>> : v \in Framed(t) }
  \cup { DataPrefix \o <<Json(v), LF>> : v \in Framed(t) }
  \cup { <<Ch("ta:"), SP, Json(v), LF>> : v \in Framed(t) }
  \cup { <<LF>>,
         EventLine \o <<LF>>,
         <<Ch(": keep-alive"), LF>>,
         DataPrefix \o <<LF>>,
         DataPrefix \o <<SP, Ch("[DONE]"), LF>>,
         DataPrefix \o <<SP, Ch("{\"type\":"), LF>>,
         DataPrefix \o <<SP, Json(JsonNull), LF>> }

\* deliveries that end in the middle of a line
PartialDeliveries(t) ==
  { <<Ch("da")>> } \cup { DataLine(v) : v \in Framed(t) }

\* Server-sent events grammar: the JSON value a complete line carries as data
SseCarries(line) ==
  /\ StartsWith(line, DataPrefix)
  /\ LET value == Slice(line, Len(DataPrefix))
         unspaced == IF value # <<>> /\ Head(value) = SP THEN Tail(value) ELSE value
         text == IF unspaced # <<>> /\ unspaced[Len(unspaced)] = CR
                 THEN SubSeq(unspaced, 1, Len(unspaced) - 1) ELSE unspaced
     IN Len(text) = 1 /\ "json" \in DOMAIN text[1]

SseValue(line) ==
  LET value == Slice(line, Len(DataPrefix))
      unspaced == IF Head(value) = SP THEN Tail(value) ELSE value
  IN unspaced[1].json

\* the events on the complete lines of a text, but for the ignored ones
RECURSIVE EventsOn(_, _)
EventsOn(lines, t) ==
  IF lines = <<>> THEN <<>>
  ELSE (IF /\ SseCarries(Head(lines))
           /\ IsObject(SseValue(Head(lines)))
           /\ SseValue(Head(lines)) \notin Ignored(t)
        THEN <<SseValue(Head(lines))>> ELSE <<>>)
       \o EventsOn(Tail(lines), t)

\* the upstream sends delivery d
Upstream(d) ==
  LET lines == Split(upLine \o d)
  IN /\ fed' = fed \o EventsOn(Front(lines), transformer)
     /\ upLine' = Last(lines)

\* the upstream stops after MaxEvents effective events
Within(d) ==
  /\ Len(fed) < MaxEvents
  /\ Len(fed) + Len(EventsOn(Front(Split(upLine \o d)), transformer)) <= MaxEvents

ClaudeWhole == WholeDeliveries("claude")
ClaudePartial == PartialDeliveries("claude")
CodexWhole == WholeDeliveries("chatgpt")
CodexPartial == PartialDeliveries("chatgpt")
GeminiWhole == WholeDeliveries("gemini")
GeminiPartial == PartialDeliveries("gemini")

----------------------------------------------------------------------------
(* The read loops *)

Init ==
  /\ transformer \in Transformers
  /\ pc = "reading"
  /\ buffer = <<>>
  /\ state = InitState
  /\ codex = InitCodex
  /\ out = <<>>
  /\ upLine = <<>>
  /\ fed = <<>>
  /\ pending = <<>>
  /\ arg = <<>>
  /\ result = <<>>
  /\ streams = <<>>
  /\ controllerCalls = <<>>

Acc == [state |-> state, codex |-> codex, out |-> out]

\* catch (error) { controller.error(error) }
Catch(calls) == Append(calls, "error")

\* finally { controller.close() }
Finally(calls) == Append(calls, "close")

\* claude-anthropic: one reader.read() that returns a value
ClaudeRead(d) ==
  /\ transformer = "claude" /\ pc = "reading"
  /\ Upstream(d)
  /\ LET lines == Split(buffer \o d)
         r == ClaudeLines(Front(lines), Acc)
     IN /\ buffer' = Last(lines)
        /\ state' = r.state
        /\ out' = r.out
  /\ UNCHANGED <<transformer, pc, codex, controllerCalls>>

\* claude-anthropic: reader.read() reports done
ClaudeDone ==
  /\ transformer = "claude" /\ pc = "reading"
  /\ out' = Append(out, DONE)
  /\ pc' = "closed"
  /\ controllerCalls' = Finally(controllerCalls)
  /\ UNCHANGED <<transformer, buffer, state, codex, upLine, fed>>

\* chatgpt-oauth: one reader.read() that returns a value
CodexRead(d) ==
  /\ transformer = "chatgpt" /\ pc = "reading"
  /\ Upstream(d)
  /\ LET lines == SplitCRLF(buffer \o d)
         r == CodexLines(Front(lines), Acc)
     IN /\ buffer' = Last(lines)
        /\ codex' = r.codex
        /\ out' = r.out
  /\ UNCHANGED <<transformer, pc, state, controllerCalls>>

\* chatgpt-oauth: reader.read() reports done
CodexDone ==
  /\ transformer = "chatgpt" /\ pc = "reading"
  /\ out' = out \o <<CodexFinalChunk(codex), DONE>>
  /\ pc' = "closed"
  /\ controllerCalls' = Finally(controllerCalls)
  /\ UNCHANGED <<transformer, buffer, state, codex, upLine, fed>>

\* gemini-cli: one reader.read() that returns a value
GeminiRead(d) ==
  /\ transformer = "gemini" /\ pc = "reading"
  /\ Upstream(d)
  /\ LET lines == Split(buffer \o d)
         r == GeminiLines(Front(lines), Acc)
     IN /\ buffer' = Last(lines)
        /\ out' = r.out
  /\ UNCHANGED <<transformer, pc, state, codex, controllerCalls>>

\* gemini-cli: reader.read() reports done
GeminiDone ==
  /\ transformer = "gemini" /\ pc = "reading"
  /\ out' = IF buffer # <<>> THEN GeminiLine(buffer, Acc).out ELSE out
  /\ pc' = "closed"
  /\ controllerCalls' = Finally(controllerCalls)
  /\ UNCHANGED <<transformer, buffer, state, codex, upLine, fed>>

\* variant: a failed read still emits the sentinel
ReadFailEmitsDone ==
  /\ pc = "reading"
  /\ out' = Append(out, DONE)
  /\ pc' = "errored"
  /\ controllerCalls' = Finally(Catch(controllerCalls))
  /\ UNCHANGED <<transformer, buffer, state, codex, upLine, fed>>

\* reader.read() rejects: controller.error(error)
ReadFail ==
  /\ pc = "reading"
  /\ pc' = "errored"
  /\ controllerCalls' = Finally(Catch(controllerCalls))
  /\ UNCHANGED <<transformer, buffer, state, codex, out, upLine, fed>>

\* a delivery may end inside a line only when the one before ended a line
Next ==
  \/ \E d \in ClaudeWhole : Within(d) /\ ClaudeRead(d) /\ UNCHANGED <<pending, arg, result, streams>>
  \/ \E d \in ClaudePartial :
       upLine = <<>> /\ Within(d) /\ ClaudeRead(d) /\ UNCHANGED <<pending, arg, result, streams>>
  \/ ClaudeDone /\ UNCHANGED <<pending, arg, result, streams>>
  \/ \E d \in CodexWhole : Within(d) /\ CodexRead(d) /\ UNCHANGED <<pending, arg, result, streams>>
  \/ \E d \in CodexPartial :
       upLine = <<>> /\ Within(d) /\ CodexRead(d) /\ UNCHANGED <<pending, arg, result, streams>>
  \/ CodexDone /\ UNCHANGED <<pending, arg, result, streams>>
  \/ \E d \in GeminiWhole : Within(d) /\ GeminiRead(d) /\ UNCHANGED <<pending, arg, result, streams>>
  \/ \E d \in GeminiPartial :
       upLine = <<>> /\ Within(d) /\ GeminiRead(d) /\ UNCHANGED <<pending, arg, result, streams>>
  \/ GeminiDone /\ UNCHANGED <<pending, arg, result, streams>>
  \/ ReadFail /\ UNCHANGED <<pending, arg, result, streams>>

Spec == Init /\ [][Next]_vars

\* the upstream ends or fails: reader.read() reports done or rejects
UpstreamEnds ==
  (ClaudeDone \/ CodexDone \/ GeminiDone \/ ReadFail)
    /\ UNCHANGED <<pending, arg, result, streams>>

\* every upstream eventually ends or fails
SpecEnding == Spec /\ WF_vars(UpstreamEnds)

----------------------------------------------------------------------------
(* A scripted stream: the text scenario, delivered in every possible split *)

ScenarioEvents ==
  << [type |-> "message_start", message |-> [model |-> "m1"]],
     BlockStart(0, [type |-> "text"]),
     TextHi,
     TextThere,
     [type |-> "content_block_stop", index |-> 0],
     EndTurn,
     [type |-> "message_stop"] >>

RECURSIVE DataLines(_)
DataLines(events) ==
  IF events = <<>> THEN <<>>
  ELSE DataLine(Head(events)) \o <<LF>> \o DataLines(Tail(events))

RECURSIVE Frames(_)
Frames(events) ==
  IF events = <<>> THEN <<>>
  ELSE EventLine \o <<LF>> \o DataLine(Head(events)) \o <<LF, LF>> \o Frames(Tail(events))

\* the scenario as bare data lines, as full frames, and as full frames whose last
\* data line has no line feed (the shape of mockSSEData)
ScenarioWires ==
  { DataLines(ScenarioEvents),
    Frames(ScenarioEvents),
    SubSeq(Frames(ScenarioEvents), 1, Len(Frames(ScenarioEvents)) - 2) }

InitScenario ==
  /\ transformer = "claude"
  /\ pc = "reading"
  /\ buffer = <<>>
  /\ state = InitState
  /\ codex = InitCodex
  /\ out = <<>>
  /\ upLine = <<>>
  /\ fed = <<>>
  /\ pending \in ScenarioWires
  /\ arg = <<>>
  /\ result = <<>>
  /\ streams = <<>>
  /\ controllerCalls = <<>>

ScenarioRead ==
  \E n \in 1..Len(pending) :
    /\ ClaudeRead(SubSeq(pending, 1, n))
    /\ pending' = SubSeq(pending, n + 1, Len(pending))
    /\ UNCHANGED <<arg, result, streams>>

ScenarioDone ==
  /\ pending = <<>>
  /\ ClaudeDone
  /\ UNCHANGED <<pending, arg, result, streams>>

NextScenario == ScenarioRead \/ ScenarioDone

SpecScenario == InitScenario /\ [][NextScenario]_vars

----------------------------------------------------------------------------
(* One byte stream per handler, delivered in every possible split *)

\* event lines, blank lines, CRLF line ends, a data line without the blank, a comment,
\* payloads that do not parse, and a last line without line feed
FramingWire(t) ==
  CASE t = "claude" ->
         EventLine \o <<LF>> \o DataLine(MessageStart(1)) \o <<LF, LF>>
         \o DataLine(TextHi) \o <<CR, LF>>
         \o DataPrefix \o <<Json(TextThere), LF>>
         \o DataPrefix \o <<SP, Ch("{\"type\":"), LF>>
         \o <<Ch(": keep-alive"), LF>>
         \o DataLine(EndTurn) \o <<LF>>
         \o EventLine \o <<LF>>
         \o DataLine(TextHi)
    [] t = "chatgpt" ->
         EventLine \o <<LF>>
         \o DataLine([type |-> "response.created", response |-> [model |-> "gpt-x"]])
         \o <<LF, LF>>
         \o DataLine(CodexTextHi) \o <<CR, LF>>
         \o DataPrefix \o <<Json(CodexTextHi), LF>>
         \o DataPrefix \o <<SP, Ch("[DONE]"), LF>>
         \o DataPrefix \o <<SP, Ch("{\"type\":"), CR, LF>>
         \o DataLine([type |-> "response.output_text.delta", delta |-> " there"]) \o <<LF>>
         \o EventLine \o <<LF>>
         \o DataLine(CodexTextHi)
    [] t = "gemini" ->
         DataLine(GeminiTextHi) \o <<LF, LF>>
         \o DataLine(GeminiTextHi) \o <<CR, LF>>
         \o DataPrefix \o <<Json(GeminiTextHi), LF>>
         \o DataPrefix \o <<SP, Ch("{\"response\":"), LF>>
         \o DataLine([error |-> [code |-> 429]]) \o <<LF>>
         \o <<Ch(": keep-alive"), LF>>
         \o EventLine \o <<LF>>
         \o DataLine(GeminiTextHi)

InitFraming ==
  /\ transformer \in Transformers
  /\ pc = "reading"
  /\ buffer = <<>>
  /\ state = InitState
  /\ codex = InitCodex
  /\ out = <<>>
  /\ upLine = <<>>
  /\ fed = <<>>
  /\ pending = FramingWire(transformer)
  /\ arg = <<>>
  /\ result = <<>>
  /\ streams = <<>>
  /\ controllerCalls = <<>>

\* the upstream delivers the next n atoms of the byte stream
FramingRead ==
  \E n \in 1..Len(pending) :
    /\ \/ ClaudeRead(SubSeq(pending, 1, n))
       \/ CodexRead(SubSeq(pending, 1, n))
       \/ GeminiRead(SubSeq(pending, 1, n))
    /\ pending' = SubSeq(pending, n + 1, Len(pending))
    /\ UNCHANGED <<arg, result, streams>>

\* the upstream ends once the byte stream is delivered
FramingDone ==
  /\ pending = <<>>
  /\ ClaudeDone \/ CodexDone \/ GeminiDone
  /\ UNCHANGED <<pending, arg, result, streams>>

NextFraming == FramingRead \/ FramingDone

SpecFraming == InitFraming /\ [][NextFraming]_vars

----------------------------------------------------------------------------
(* Schema adapter (gemini-cli): processJsonSchema                          *)
(*                                                                         *)
(* A schema is a record of the fields it has.  The value of `type` is      *)
(* [scalar |-> s] for a string and [list |-> <<..>>] for an array of       *)
(* strings; a thrown Error is the record [error |-> message].  The fields  *)
(* of a fragment are visited in the order type, items, anyOf, properties,  *)
(* then the others.                                                        *)

TypeEnum ==
  {"TYPE_UNSPECIFIED", "STRING", "NUMBER", "INTEGER", "BOOLEAN", "ARRAY", "OBJECT", "NULL"}

\* String.prototype.toUpperCase on the type names in use
ToUpperCase(s) ==
  CASE s = "string" -> "STRING"
    [] s = "number" -> "NUMBER"
    [] s = "integer" -> "INTEGER"
    [] s = "boolean" -> "BOOLEAN"
    [] s = "array" -> "ARRAY"
    [] s = "object" -> "OBJECT"
    [] s = "null" -> "NULL"
    [] s = "date" -> "DATE"
    [] OTHER -> s

\* Object.values(Type).includes(upperCaseType) ? upperCaseType : Type.TYPE_UNSPECIFIED
GenAIType(s) ==
  IF ToUpperCase(s) \in TypeEnum THEN ToUpperCase(s) ELSE "TYPE_UNSPECIFIED"

ScalarType(s) == [scalar |-> s]
TypeList(l) == [list |-> l]
IsTypeList(t) == "list" \in DOMAIN t

SchemaError(message) == [error |-> message]
IsSchemaError(r) == "error" \in DOMAIN r

\* object[field] = value
Put(object, field, value) ==
  [f \in DOMAIN object \cup {field} |-> IF f = field THEN value ELSE object[f]]

\* variant: "null" in the type list is dropped without marking the schema nullable
FlattenWithoutNullable(typeList, resultingSchema) ==
  LET listWithoutNull == SelectSeq(typeList, LAMBDA t : t # "null")
  IN IF Len(listWithoutNull) = 1
     THEN Put(resultingSchema, "type", ScalarType(GenAIType(listWithoutNull[1])))
     ELSE Put(resultingSchema, "anyOf",
              [i \in 1..Len(listWithoutNull) |->
                 [type |-> ScalarType(GenAIType(listWithoutNull[i]))]])

\* flattenTypeArrayToAnyOf(typeList, resultingSchema)
FlattenTypeArrayToAnyOf(typeList, resultingSchema) ==
  LET withNullable == IF \E i \in 1..Len(typeList) : typeList[i] = "null"
                      THEN Put(resultingSchema, "nullable", TRUE) ELSE resultingSchema
      listWithoutNull == SelectSeq(typeList, LAMBDA t : t # "null")
  IN IF Len(listWithoutNull) = 1
     THEN Put(withNullable, "type", ScalarType(GenAIType(listWithoutNull[1])))
     ELSE Put(withNullable, "anyOf",
              [i \in 1..Len(listWithoutNull) |->
                 [type |-> ScalarType(GenAIType(listWithoutNull[i]))]])

\* incomingAnyOf[i]["type"] === "null"
IsNullTyped(fragment) ==
  "type" \in DOMAIN fragment /\ fragment.type = ScalarType("null")

\* item["type"] == "null": the loose comparison also holds for the array ["null"]
IsLooselyNullTyped(fragment) ==
  "type" \in DOMAIN fragment /\ fragment.type \in {ScalarType("null"), TypeList(<<"null">>)}

SchemaFields == {"type", "items", "anyOf", "properties", "additionalProperties"}

\* fieldValue == null, for the fields whose value is a string or null
StringFields == {"description", "default"}
IsNullField(object, field) == field \in StringFields /\ object[field] = null

\* the nullable anyOf collapse: the fragment the field loop runs on
IsCollapsed(jsonSchema) ==
  /\ "anyOf" \in DOMAIN jsonSchema
  /\ Len(jsonSchema.anyOf) = 2
  /\ IsNullTyped(jsonSchema.anyOf[1]) \/ IsNullTyped(jsonSchema.anyOf[2])

Substituted(jsonSchema) ==
  IF ~IsCollapsed(jsonSchema) THEN jsonSchema
  ELSE IF IsNullTyped(jsonSchema.anyOf[1]) THEN jsonSchema.anyOf[2]
  ELSE jsonSchema.anyOf[1]

\* the type field: an array is flattened before the loop, a string set in the loop
TypeField(schema, genAISchema) ==
  IF "type" \notin DOMAIN schema THEN genAISchema
  ELSE IF IsTypeList(schema.type)
  THEN FlattenTypeArrayToAnyOf(schema.type.list, genAISchema)
  ELSE IF schema.type = ScalarType("null")
  THEN SchemaError("type: null can not be the only possible type for the field.")
  ELSE Put(genAISchema, "type", ScalarType(GenAIType(schema.type.scalar)))

\* the fields the loop passes through: not additionalProperties, not a null value
OtherFields(schema, genAISchema) ==
  IF IsSchemaError(genAISchema) THEN genAISchema
  ELSE LET others == {f \in DOMAIN schema \ SchemaFields : ~IsNullField(schema, f)}
       IN [f \in DOMAIN genAISchema \cup others |->
             IF f \in others THEN schema[f] ELSE genAISchema[f]]

\* the result of the first failed conversion of a dictionary of schemas, or the dictionary
FirstError(dictionary) ==
  IF \E key \in DOMAIN dictionary : IsSchemaError(dictionary[key])
  THEN dictionary[CHOOSE key \in DOMAIN dictionary : IsSchemaError(dictionary[key])]
  ELSE dictionary

\* genAISchema[field] = value, unless the schema or the value is a thrown error
PutConverted(genAISchema, field, value) ==
  IF IsSchemaError(genAISchema) THEN genAISchema
  ELSE IF IsSchemaError(value) THEN value
  ELSE Put(genAISchema, field, value)

RECURSIVE ProcessJsonSchema(_), ProcessAnyOf(_, _, _), AnyOfItem(_, _, _, _),
          ItemsField(_, _), PropertiesField(_, _)

\* the loop body for the field anyOf: items left to visit, the list built, the schema
ProcessAnyOf(items, listSchemaFieldValue, genAISchema) ==
  IF IsSchemaError(genAISchema) THEN genAISchema
  ELSE IF items = <<>> THEN Put(genAISchema, "anyOf", listSchemaFieldValue)
  ELSE IF IsLooselyNullTyped(Head(items))
  THEN ProcessAnyOf(Tail(items), listSchemaFieldValue, Put(genAISchema, "nullable", TRUE))
  ELSE AnyOfItem(Tail(items), listSchemaFieldValue, genAISchema,
                 ProcessJsonSchema(Head(items)))

\* listSchemaFieldValue.push(processJsonSchema(item)), then the rest of the loop
AnyOfItem(rest, listSchemaFieldValue, genAISchema, processed) ==
  IF IsSchemaError(processed) THEN processed
  ELSE ProcessAnyOf(rest, Append(listSchemaFieldValue, processed), genAISchema)

\* the loop body for the field items
ItemsField(schema, genAISchema) ==
  IF IsSchemaError(genAISchema) \/ "items" \notin DOMAIN schema THEN genAISchema
  ELSE PutConverted(genAISchema, "items", ProcessJsonSchema(schema.items))

\* the loop body for the field properties
PropertiesField(schema, genAISchema) ==
  IF IsSchemaError(genAISchema) \/ "properties" \notin DOMAIN schema THEN genAISchema
  ELSE PutConverted(genAISchema, "properties",
                    FirstError([key \in DOMAIN schema.properties |->
                                  ProcessJsonSchema(schema.properties[key])]))

\* the loop body for the field anyOf
AnyOfField(schema, genAISchema) ==
  IF IsSchemaError(genAISchema) \/ "anyOf" \notin DOMAIN schema THEN genAISchema
  ELSE ProcessAnyOf(schema.anyOf, <<>>, genAISchema)

\* processJsonSchema(_jsonSchema)
ProcessJsonSchema(jsonSchema) ==
  IF "type" \in DOMAIN jsonSchema /\ "anyOf" \in DOMAIN jsonSchema
  THEN SchemaError("type and anyOf cannot be both populated.")
  ELSE OtherFields(Substituted(jsonSchema),
         PropertiesField(Substituted(jsonSchema),
           AnyOfField(Substituted(jsonSchema),
             ItemsField(Substituted(jsonSchema),
               TypeField(Substituted(jsonSchema),
                         IF IsCollapsed(jsonSchema) THEN [nullable |-> TRUE]
                         ELSE EmptyObject)))))

----------------------------------------------------------------------------
(* Request transcoders: transformRequestIn                                 *)
(*                                                                         *)
(* A canonical message is [role, content] with content [string |-> s] for  *)
(* a string and [blocks |-> <<..>>] for an array of content blocks; it may *)
(* have tool_calls and tool_call_id.  The arguments of a tool call are a   *)
(* JSON text, [text |-> s, value |-> v] with v what JSON.parse gives.  A   *)
(* thrown exception is the record [error |-> message].                     *)

Throw(message) == [error |-> message]
Throws(r) == "error" \in DOMAIN r

\* delete object[field]
Delete(object, field) == [f \in DOMAIN object \ {field} |-> object[f]]

\* the generated part of an id, Math.random() left out
RandomToolId == "tool_random"

\* tTool, for one function declaration and one of its two schema fields
TToolField(functionDeclaration, field) ==
  LET jsonSchemaField == field \o "JsonSchema"
  IN IF field \notin DOMAIN functionDeclaration THEN functionDeclaration
     ELSE IF "$schema" \notin DOMAIN functionDeclaration[field]
     THEN LET converted == ProcessJsonSchema(functionDeclaration[field])
          IN IF IsSchemaError(converted) THEN converted
             ELSE Put(functionDeclaration, field, converted)
     ELSE IF jsonSchemaField \notin DOMAIN functionDeclaration
     THEN Delete(Put(functionDeclaration, jsonSchemaField, functionDeclaration[field]), field)
     ELSE functionDeclaration

\* tTool, for one function declaration: its parameters, then its response
RECURSIVE TToolFields(_, _)
TToolFields(functionDeclaration, fields) ==
  IF fields = <<>> \/ Throws(functionDeclaration) THEN functionDeclaration
  ELSE TToolFields(TToolField(functionDeclaration, Head(fields)), Tail(fields))

TToolDeclaration(functionDeclaration) ==
  TToolFields(functionDeclaration, <<"parameters", "response">>)

\* tTool(tool)
TTool(tool) ==
  IF "functionDeclarations" \notin DOMAIN tool THEN tool
  ELSE LET declarations == [i \in 1..Len(tool.functionDeclarations) |->
                              TToolDeclaration(tool.functionDeclarations[i])]
       IN IF \E i \in 1..Len(declarations) : Throws(declarations[i])
          THEN declarations[CHOOSE i \in 1..Len(declarations) :
                              /\ Throws(declarations[i])
                              /\ \A j \in 1..(i - 1) : ~Throws(declarations[j])]
          ELSE Put(tool, "functionDeclarations", declarations)

\* request.tools?.filter(..)?.map(..): the function declarations of the request
GeminiFunctionDeclarations(request) ==
  LET named == SelectSeq(request.tools, LAMBDA tool : tool.function.name # "web_search")
  IN [i \in 1..Len(named) |->
        LET base == [name |-> named[i].function.name,
                     description |-> named[i].function.description]
        IN IF "parameters" \in DOMAIN named[i].function
           THEN Put(base, "parametersJsonSchema", named[i].function.parameters)
           ELSE base]

\* the tools of the upstream request, as [list |-> tools], or what tTool threw
GeminiTools(request) ==
  IF "tools" \notin DOMAIN request THEN [list |-> <<>>]
  ELSE LET functionDeclarations == GeminiFunctionDeclarations(request)
           converted == TTool([functionDeclarations |-> functionDeclarations])
           webSearch == \E i \in 1..Len(request.tools) :
                          request.tools[i].function.name = "web_search"
       IN IF functionDeclarations # <<>> /\ Throws(converted) THEN converted
          ELSE [list |->
                  (IF functionDeclarations # <<>> THEN <<converted>> ELSE <<>>)
                    \o (IF webSearch THEN <<[googleSearch |-> EmptyObject]>> ELSE <<>>)]

GeminiRole(role) == IF role = "assistant" THEN "model" ELSE "user"

\* the parts of one message: its text, then its tool calls
GeminiParts(message) ==
  LET content == IF "content" \in DOMAIN message THEN message.content ELSE EmptyObject
      texts == IF "string" \in DOMAIN content THEN <<[text |-> content.string]>>
               ELSE IF "blocks" \in DOMAIN content
               THEN [i \in 1..Len(content.blocks) |->
                       [text |-> OrStr(Get(content.blocks[i], "text"), "")]]
               ELSE <<>>
      calls == IF "tool_calls" \in DOMAIN message
               THEN [i \in 1..Len(message.tool_calls) |->
                       [functionCall |->
                          [id |-> OrStr(Get(message.tool_calls[i], "id"), RandomToolId),
                           name |-> message.tool_calls[i].function.name,
                           args |-> message.tool_calls[i].function.arguments.value]]]
               ELSE <<>>
  IN texts \o calls

GeminiContents(messages) ==
  [i \in 1..Len(messages) |->
     [role |-> GeminiRole(messages[i].role), parts |-> GeminiParts(messages[i])]]

\* GeminiCLITransformer.transformRequestIn, with credentials that have not expired
GeminiTransformRequestIn(request, options, files) ==
  LET tools == GeminiTools(request)
      contents == GeminiContents(request.messages)
      inner == IF Throws(tools) \/ tools.list = <<>> THEN [contents |-> contents]
               ELSE [contents |-> contents, tools |-> tools.list]
      body == [request |-> inner, model |-> Get(request, "model"),
               project |-> Get(options, "project")]
  IN IF Throws(tools) THEN tools
     ELSE IF "gemini" \notin DOMAIN files
     THEN Throw("TypeError: Cannot read properties of undefined (reading 'access_token')")
     ELSE [body |-> body,
           config |->
             [url |-> IF "stream" \in DOMAIN request /\ request.stream
                      THEN "https://cloudcode-pa.googleapis.com/v1internal:streamGenerateContent?alt=sse"
                      ELSE "https://cloudcode-pa.googleapis.com/v1internal:generateContent",
              headers |->
                [Authorization |-> "Bearer " \o Get(files.gemini, "access_token")]]]

----------------------------------------------------------------------------
(* The pure functions of the plugins, called on bounded inputs             *)

MaxDepth == 2
MaxMessages == 3
MaxBlocks == 3
MaxHandled == 2

\* the stop reasons an upstream may send: the rows of the table, unknown values, the
\* empty string, null, and no stop_reason field at all
StopReasons ==
  {"end_turn", "max_tokens", "tool_use", "stop_sequence", "refusal", "pause_turn", "", null}

StopReasonCarriers == {[stop_reason |-> r] : r \in StopReasons} \cup {EmptyObject}

\* the closure variables of a stream after the events were handled
RECURSIVE StateAfter(_, _)
StateAfter(events, st) ==
  IF events = <<>> THEN st
  ELSE LET items == SelectSeq(ProcessSSEEvent(Head(events), st), IsStateItem)
       IN StateAfter(Tail(events),
                     IF items = <<>> THEN st ELSE WriteBack(st, items[1]._state))

StreamStates ==
  { StateAfter(<<>>, InitState),
    StateAfter(<<MessageStart(1)>>, InitState),
    StateAfter(<<MessageStart(1), TextHi>>, InitState),
    StateAfter(<<MessageStart(1), BlockStart(0, ToolUse("t1", "get_weather"))>>, InitState),
    StateAfter(<<MessageStart(1), TextHi, EndTurn>>, InitState) }

NullSchema == [type |-> ScalarType("null")]

LeafSchemas ==
  { [type |-> ScalarType("string")],
    [type |-> ScalarType("number")],
    [type |-> ScalarType("date")],
    NullSchema,
    [type |-> TypeList(<<"string", "null">>)],
    [type |-> TypeList(<<"string", "number">>)],
    [type |-> TypeList(<<"null", "date">>)],
    [type |-> TypeList(<<"integer", "null", "boolean">>)],
    [type |-> TypeList(<<"null">>)],
    [type |-> ScalarType("object"), description |-> "a place", additionalProperties |-> FALSE],
    [type |-> ScalarType("string"), default |-> null] }

\* the fragments that have a fragment of S under items, properties or anyOf
Around(S) ==
  UNION { { [type |-> ScalarType("array"), items |-> s],
            [type |-> TypeList(<<"array", "null">>), items |-> s],
            [type |-> ScalarType("object"), properties |-> [city |-> s]],
            [anyOf |-> <<NullSchema, s>>],
            [anyOf |-> <<s, NullSchema>>],
            [description |-> "a place", anyOf |-> <<NullSchema, s>>],
            [anyOf |-> <<s>>],
            [type |-> ScalarType("string"), anyOf |-> <<s>>] } : s \in S }

RECURSIVE Schemas(_)
Schemas(depth) ==
  IF depth = 0 THEN LeafSchemas
  ELSE LET inner == Schemas(depth - 1)
       IN inner \cup Around(inner)
                \cup (IF depth = 1
                      THEN {[anyOf |-> <<a, b>>] : a, b \in inner}
                             \cup {[anyOf |-> <<a, NullSchema, b>>] : a, b \in inner}
                      ELSE {})

\* String.prototype.includes, endsWith
Includes(s, sub) == \E i \in 1..(Len(s) - Len(sub) + 1) : SubSeq(s, i, i + Len(sub) - 1) = sub
EndsWith(s, suffix) ==
  Len(s) >= Len(suffix) /\ SubSeq(s, Len(s) - Len(suffix) + 1, Len(s)) = suffix

\* a truthy string: not null, undefined or empty
Truthy(s) == s \notin {"", null, undefined}

\* the texts of the text blocks of an array content, joined with "\n"
BlockTexts(blocks) ==
  LET texts == SelectSeq(blocks, LAMBDA c : c.type = "text")
  IN JoinLines([i \in 1..Len(texts) |-> texts[i].text])

\* convertRole(role)
ConvertRole(role) == IF role \in {"system", "tool", "function"} THEN "user" ELSE role

\* JSON.stringify of a value that is not a string
Stringified(v) == [stringified |-> v]

\* convertMessages: the steps of the loop for one message
ConvertMessage(msg, acc) ==
  LET content == IF "content" \in DOMAIN msg THEN msg.content ELSE EmptyObject
      isString == "string" \in DOMAIN content
      isArray == "blocks" \in DOMAIN content
      joined(text) == IF Truthy(acc.system) THEN acc.system \o "\n\n" \o text ELSE text
      toolUse(toolCall) ==
        [type |-> "tool_use", id |-> Get(toolCall, "id"),
         name |-> toolCall.function.name, input |-> toolCall.function.arguments.value]
      text == IF (isString /\ content.string # "") \/ isArray
              THEN <<[type |-> "text", text |-> content]>> ELSE <<>>
  IN IF msg.role = "system"
     THEN IF isString THEN [acc EXCEPT !.system = joined(content.string)]
          ELSE IF isArray THEN [acc EXCEPT !.system = joined(BlockTexts(content.blocks))]
          ELSE acc
     ELSE IF msg.role \in {"tool", "function"}
     THEN [acc EXCEPT !.messages = Append(@,
             [role |-> "user",
              content |-> [blocks |->
                <<[type |-> "tool_result",
                   tool_use_id |-> OrStr(Get(msg, "tool_call_id"), Get(msg, "name")),
                   content |-> IF isString THEN content ELSE Stringified(content)]>>]])]
     ELSE IF msg.role = "assistant" /\ "tool_calls" \in DOMAIN msg
     THEN [acc EXCEPT !.messages = Append(@,
             [role |-> "assistant",
              content |-> [blocks |->
                text \o [i \in 1..Len(msg.tool_calls) |-> toolUse(msg.tool_calls[i])]]])]
     ELSE [acc EXCEPT !.messages = Append(@,
             [role |-> ConvertRole(msg.role),
              content |-> IF isArray
                          THEN [blocks |-> [i \in 1..Len(content.blocks) |->
                                  IF content.blocks[i].type = "text"
                                  THEN [type |-> "text", text |-> content.blocks[i].text]
                                  ELSE content.blocks[i]]]
                          ELSE content])]

\* convertMessages(messages)
RECURSIVE ConvertMessagesFrom(_, _)
ConvertMessagesFrom(messages, acc) ==
  IF messages = <<>> THEN acc
  ELSE ConvertMessagesFrom(Tail(messages), ConvertMessage(Head(messages), acc))

ConvertMessages(messages) == ConvertMessagesFrom(messages, [system |-> null, messages |-> <<>>])

\* convertTools(tools)
ConvertTools(tools) ==
  [i \in 1..Len(tools) |->
     LET fn == IF "function" \in DOMAIN tools[i] THEN tools[i].function ELSE tools[i]
     IN [name |-> fn.name,
         description |-> OrStr(Get(fn, "description"), ""),
         input_schema |-> IF "parameters" \in DOMAIN fn THEN fn.parameters
                          ELSE [type |-> ScalarType("object")]]]

\* parseThinkingConfig(request), given the model names that enable thinking
ParseThinkingConfig(request, markers) ==
  LET model == OrStr(Get(request, "model"), "")
  IN IF \E m \in markers : Includes(model, m)
     THEN <<[type |-> "enabled",
             budget_tokens |-> IF "thinking" \in DOMAIN request
                                  /\ "budget_tokens" \in DOMAIN request.thinking
                                  /\ request.thinking.budget_tokens # 0
                               THEN request.thinking.budget_tokens ELSE 10000]>>
     ELSE <<>>

\* if (condition) object[field] = value
PutIf(condition, object, field, value) ==
  IF condition THEN Put(object, field, value) ELSE object

\* body[field] = request[field] when the request has the field
Copy(request, field, body) == PutIf(field \in DOMAIN request, body, field, request[field])

\* the body both Anthropic-style transcoders build
AnthropicBody(request, model, markers) ==
  LET converted == ConvertMessages(IF "messages" \in DOMAIN request THEN request.messages ELSE <<>>)
      thinking == ParseThinkingConfig(request, markers)
      body == [model |-> model,
               messages |-> converted.messages,
               max_tokens |-> IF "max_tokens" \in DOMAIN request /\ request.max_tokens # 0
                              THEN request.max_tokens ELSE 4096,
               stream |-> "stream" \in DOMAIN request /\ request.stream]
  IN PutIf("stop" \in DOMAIN request,
       Copy(request, "top_k",
         Copy(request, "top_p",
           Copy(request, "temperature",
             PutIf(thinking # <<>>,
               PutIf("tools" \in DOMAIN request /\ request.tools # <<>>,
                 PutIf(Truthy(converted.system), body, "system", converted.system),
                 "tools", ConvertTools(request.tools)),
               "thinking", thinking[1])))),
       "stop_sequences", request.stop)

\* the position of the first "/" of the path in an absolute URL (0: no path)
PathStart(href) ==
  LET slashes == {i \in 1..Len(href) : SubSeq(href, i, i) = "/"}
      after == {i \in slashes : Cardinality({j \in slashes : j < i}) >= 2}
  IN IF after = {} THEN 0 ELSE CHOOSE i \in after : \A j \in after : i <= j

\* new URL(href), serialized: a URL without a path has the path "/"
NewURL(href) == IF PathStart(href) = 0 THEN href \o "/" ELSE href

\* new URL("./" + relative, base), serialized: the last segment of the base path is
\* replaced by the relative path
NewRelativeURL(relative, base) ==
  LET href == NewURL(base)
      last == CHOOSE i \in 1..Len(href) :
                /\ SubSeq(href, i, i) = "/"
                /\ \A j \in (i + 1)..Len(href) : SubSeq(href, j, j) # "/"
  IN SubSeq(href, 1, last) \o relative

\* baseUrl.replace(/\/v1\/messages\/?$/, replacement)
ReplaceMessagesPath(baseUrl, replacement) ==
  IF EndsWith(baseUrl, "/v1/messages/")
  THEN SubSeq(baseUrl, 1, Len(baseUrl) - Len("/v1/messages/")) \o replacement
  ELSE IF EndsWith(baseUrl, "/v1/messages")
  THEN SubSeq(baseUrl, 1, Len(baseUrl) - Len("/v1/messages")) \o replacement
  ELSE baseUrl

\* a || b || c over optional string fields
FirstTruthy(values) ==
  LET truthy == SelectSeq(values, Truthy)
  IN IF truthy = <<>> THEN values[Len(values)] ELSE truthy[1]

AnthropicHeaders(apiKey) ==
  LET headers == [f \in {"Content-Type", "anthropic-version"} |->
                    IF f = "Content-Type" THEN "application/json" ELSE "2023-06-01"]
  IN IF Truthy(apiKey) THEN Put(headers, "x-api-key", apiKey) ELSE headers

\* ClaudeAnthropicTransformer: constructor and transformRequestIn
ClaudeTransformRequestIn(request, provider, options, env) ==
  LET thisBaseUrl == OrStr(Get(options, "baseUrl"), "https://api.anthropic.com")
      thisApiKey == OrStr(Get(options, "apiKey"), Get(env, "ANTHROPIC_API_KEY"))
      body == AnthropicBody(request, OrStr(Get(request, "model"), "claude-sonnet-4-20250514"),
                            {"thinking"})
      baseUrl == FirstTruthy(<<Get(provider, "api_base_url"), Get(options, "baseUrl"), thisBaseUrl>>)
      cleanBaseUrl == ReplaceMessagesPath(baseUrl, "")
      apiKey == FirstTruthy(<<Get(provider, "api_key"), Get(options, "apiKey"), thisApiKey>>)
  IN [body |-> body,
      config |-> [url |-> NewURL(cleanBaseUrl \o "/v1/messages"),
                  headers |-> AnthropicHeaders(apiKey)]]

\* KimiAnthropicTransformer: constructor and transformRequestIn
KimiTransformRequestIn(request, provider, options, env) ==
  LET thisBaseUrl == OrStr(Get(options, "baseUrl"), "https://api.kimi.com/coding/")
      thisApiKey == OrStr(Get(options, "apiKey"), Get(env, "ANTHROPIC_API_KEY"))
      models == IF "models" \in DOMAIN provider THEN provider.models ELSE <<>>
      resolvedModel == FirstTruthy(<<Get(request, "model"),
                                     IF models = <<>> THEN undefined ELSE models[1],
                                     "kimi-for-coding">>)
      body == AnthropicBody(request, resolvedModel, {"thinking", "k2"})
      baseUrl == FirstTruthy(<<Get(provider, "api_base_url"), Get(options, "baseUrl"), thisBaseUrl>>)
      cleanBaseUrl == ReplaceMessagesPath(baseUrl, "/")
      headers == AnthropicHeaders(
                   FirstTruthy(<<Get(provider, "api_key"), Get(options, "apiKey"), thisApiKey>>))
  IN [body |-> body,
      config |-> [url |-> NewRelativeURL("v1/messages", cleanBaseUrl),
                  headers |-> IF body.stream THEN Put(headers, "Accept", "text/event-stream")
                              ELSE headers]]

\* the content of a message as the Responses transcoder reads it; blockText gives the
\* text taken from one block of an array content
SystemBlockText(c) == OrStr(Get(c, "text"), "")
TurnBlockText(c) == IF c.type = "text" THEN c.text ELSE ""

CodexContent(msg, ofSystem) ==
  LET content == IF "content" \in DOMAIN msg THEN msg.content ELSE EmptyObject
  IN IF "string" \in DOMAIN content THEN content.string
     ELSE IF "blocks" \in DOMAIN content
     THEN JoinLines([i \in 1..Len(content.blocks) |->
                       IF ofSystem THEN SystemBlockText(content.blocks[i])
                       ELSE TurnBlockText(content.blocks[i])])
     ELSE ""

\* the loop over request.messages, for one message
CodexMessage(msg, acc) ==
  IF msg.role = "system"
  THEN [acc EXCEPT !.instructions =
          @ \o (IF @ # "" THEN "\n" ELSE "") \o CodexContent(msg, TRUE)]
  ELSE IF msg.role \in {"user", "assistant"}
  THEN LET content == CodexContent(msg, FALSE)
           turn == IF content # "" THEN <<[role |-> msg.role, content |-> content]>> ELSE <<>>
           calls == IF msg.role = "assistant" /\ "tool_calls" \in DOMAIN msg
                    THEN [i \in 1..Len(msg.tool_calls) |->
                            [type |-> "function_call",
                             call_id |-> Get(msg.tool_calls[i], "id"),
                             name |-> msg.tool_calls[i].function.name,
                             arguments |-> msg.tool_calls[i].function.arguments.text]]
                    ELSE <<>>
       IN [acc EXCEPT !.input = @ \o turn \o calls]
  ELSE IF msg.role = "tool"
  THEN [acc EXCEPT !.input = Append(@,
          [type |-> "function_call_output",
           call_id |-> Get(msg, "tool_call_id"),
           output |-> IF "content" \in DOMAIN msg /\ "string" \in DOMAIN msg.content
                      THEN msg.content.string
                      ELSE Stringified(Get(msg, "content"))])]
  ELSE acc

RECURSIVE CodexMessagesFrom(_, _)
CodexMessagesFrom(messages, acc) ==
  IF messages = <<>> THEN acc
  ELSE CodexMessagesFrom(Tail(messages), CodexMessage(Head(messages), acc))

\* ChatGPTOAuthTransformer.transformRequestIn, with credentials refreshed in the last 23 hours
ChatGPTTransformRequestIn(request, files) ==
  LET converted == CodexMessagesFrom(
                     IF "messages" \in DOMAIN request THEN request.messages ELSE <<>>,
                     [instructions |-> "", input |-> <<>>])
      tools == IF "tools" \in DOMAIN request
               THEN [i \in 1..Len(request.tools) |->
                       LET fn == request.tools[i].function
                           base == [type |-> "function", name |-> fn.name,
                                    description |-> Get(fn, "description")]
                       IN IF "parameters" \in DOMAIN fn
                          THEN Put(base, "parameters", fn.parameters) ELSE base]
               ELSE <<>>
      b0 == [model |-> Get(request, "model"),
             instructions |-> OrStr(converted.instructions, "You are a helpful assistant."),
             input |-> converted.input,
             store |-> FALSE,
             stream |-> TRUE]
      body == IF tools # <<>> THEN Put(b0, "tools", tools) ELSE b0
  IN IF "codex" \notin DOMAIN files
     THEN Throw("TypeError: Cannot read properties of undefined (reading 'tokens')")
     ELSE IF "tokens" \notin DOMAIN files.codex
     THEN Throw("TypeError: Cannot read properties of undefined (reading 'access_token')")
     ELSE [body |-> body,
           config |->
             [url |-> NewURL("https://chatgpt.com/backend-api/codex/responses"),
              headers |->
                [f \in {"Authorization", "Content-Type", "Accept"} |->
                   CASE f = "Authorization" ->
                          "Bearer " \o Get(files.codex.tokens, "access_token")
                     [] f = "Content-Type" -> "application/json"
                     [] OTHER -> "text/event-stream"]]]

\* Array.prototype.join("")
RECURSIVE JoinTexts(_)
JoinTexts(texts) == IF texts = <<>> THEN "" ELSE Head(texts) \o JoinTexts(Tail(texts))

\* data.usage?.input_tokens || 0
TokenCount(data, field) ==
  IF "usage" \in DOMAIN data /\ field \in DOMAIN data.usage THEN data.usage[field] ELSE 0

\* ClaudeAnthropicTransformer._transformJsonResponse: the canonical response built from
\* the upstream message
TransformJsonResponse(data) ==
  LET content == IF "content" \in DOMAIN data THEN data.content ELSE <<>>
      texts == SelectSeq(content, LAMBDA block : block.type = "text")
      thoughts == SelectSeq(content, LAMBDA block : block.type = "thinking")
      uses == SelectSeq(content, LAMBDA block : block.type = "tool_use")
      toolCalls == [i \in 1..Len(uses) |->
                      [id |-> uses[i].id, type |-> "function",
                       function |-> [name |-> uses[i].name,
                                     arguments |-> Stringified(
                                       IF "input" \in DOMAIN uses[i] THEN uses[i].input
                                       ELSE EmptyObject)]]]
      message == [role |-> "assistant",
                  content |-> JoinTexts([i \in 1..Len(texts) |-> texts[i].text])]
  IN [id |-> OrStr(Get(data, "id"), GeneratedId),
      object |-> "chat.completion",
      model |-> Get(data, "model"),
      choices |->
        <<[index |-> 0,
           message |->
             PutIf(toolCalls # <<>>,
                   PutIf(thoughts # <<>>, message, "reasoning_content",
                         JoinTexts([i \in 1..Len(thoughts) |-> thoughts[i].thinking])),
                   "tool_calls", toolCalls),
           finish_reason |-> MapStopReason(Get(data, "stop_reason"))]>>,
      usage |-> [prompt_tokens |-> TokenCount(data, "input_tokens"),
                 completion_tokens |-> TokenCount(data, "output_tokens"),
                 total_tokens |-> TokenCount(data, "input_tokens")
                                    + TokenCount(data, "output_tokens")]]

\* choices[0].finish_reason of the non-stream response
JsonFinishReason(data) == TransformJsonResponse(data).choices[1].finish_reason

\* GeminiCLITransformer.transformResponseOut, the application/json branch
GeminiJsonResponse(body) ==
  LET jsonResponse == body.response
      candidate == jsonResponse.candidates[1]
      tool_calls == ToolCallsOf(candidate.content.parts)
      finish == OrStr(Get(candidate, "finishReason"), "")
      message == [content |-> JoinLines(TextsOf(candidate.content.parts)),
                  role |-> "assistant"]
  IN [id |-> Get(jsonResponse, "responseId"),
      choices |-> <<[finish_reason |-> IF finish = "" THEN null ELSE LowerCase(finish),
                     index |-> 0,
                     message |-> PutIf(tool_calls # <<>>, message, "tool_calls", tool_calls)]>>,
      model |-> Get(jsonResponse, "modelVersion"),
      object |-> "chat.completion",
      usage |-> [completion_tokens |-> Get(jsonResponse.usageMetadata, "candidatesTokenCount"),
                 prompt_tokens |-> Get(jsonResponse.usageMetadata, "promptTokenCount"),
                 total_tokens |-> Get(jsonResponse.usageMetadata, "totalTokenCount")]]

\* the content blocks of an upstream message, and the parts of a Cloud-Code candidate
ContentBlocks ==
  { [type |-> "text", text |-> "Hi"],
    [type |-> "text", text |-> "there"],
    [type |-> "thinking", thinking |-> "hm"],
    [type |-> "tool_use", id |-> "t1", name |-> "get_weather", input |-> [city |-> "Seoul"]] }

CandidateParts ==
  { [text |-> "Hi"], [text |-> "there"],
    [functionCall |-> [name |-> "get_weather", args |-> "{\"city\":\"Seoul\"}"]] }

RECURSIVE ListsOf(_, _)
ListsOf(S, length) ==
  IF length = 0 THEN {<<>>}
  ELSE {Append(l, e) : l \in ListsOf(S, length - 1), e \in S}

Documents ==
  {[id |-> "msg_1", model |-> "m1", stop_reason |-> "end_turn", content |-> blocks,
    usage |-> [input_tokens |-> 1, output_tokens |-> 2]] :
     blocks \in UNION {ListsOf(ContentBlocks, n) : n \in 0..MaxBlocks}}

GeminiDocuments ==
  {GeminiResponse(parts, [finishReason |-> "STOP"], GeminiUsage(1, 2)) :
     parts \in UNION {ListsOf(CandidateParts, n) : n \in 0..MaxBlocks}}

JsonSchemaMarker == "http://json-schema.org/draft-07/schema#"

\* parameter schemas of tools: convertible, conflicting, only null, and marked ones
ToolSchemas ==
  LET place == [type |-> ScalarType("object"),
                properties |-> [city |-> [type |-> TypeList(<<"string", "null">>)]],
                additionalProperties |-> FALSE]
      conflict == [type |-> ScalarType("object"),
                   properties |-> [city |-> [type |-> ScalarType("string"),
                                             anyOf |-> <<[type |-> ScalarType("number")]>>]]]
      onlyNull == [type |-> ScalarType("object"), properties |-> [city |-> NullSchema]]
  IN { place, conflict, onlyNull,
       [type |-> ScalarType("string"), anyOf |-> <<[type |-> ScalarType("number")]>>],
       Put(place, "$schema", JsonSchemaMarker),
       Put(conflict, "$schema", JsonSchemaMarker) }

FunctionTool(name, parameters) ==
  [type |-> "function",
   function |-> [name |-> name, description |-> "a tool", parameters |-> parameters]]

WebSearchTool == [type |-> "function", function |-> [name |-> "web_search", description |-> "search"]]

ToolLists ==
  {<<FunctionTool("get_weather", p)>> : p \in ToolSchemas}
    \cup {<<FunctionTool("get_weather", p), FunctionTool("get_time", q)>> : p, q \in ToolSchemas}
    \cup {<<WebSearchTool>>}
    \cup {<<WebSearchTool, FunctionTool("get_weather", p)>> : p \in ToolSchemas}

UserHi == [role |-> "user", content |-> [string |-> "hi"]]

\* what the process was started with: plugin options, environment, credential files
DefaultSetting ==
  [provider |-> EmptyObject,
   options |-> [project |-> "p1"],
   env |-> [ANTHROPIC_API_KEY |-> "sk-env"],
   files |-> [gemini |-> [access_token |-> "ya29"],
              codex |-> [tokens |-> [access_token |-> "eyJ"]]]]

SystemBrief == [role |-> "system", content |-> [string |-> "Be brief."]]
SystemKind ==
  [role |-> "system",
   content |-> [blocks |-> <<[type |-> "text", text |-> "Be kind."],
                             [type |-> "text", text |-> "Be calm."]>>]]
AssistantHello == [role |-> "assistant", content |-> [string |-> "hello"]]
AssistantCall ==
  [role |-> "assistant", content |-> [string |-> ""],
   tool_calls |-> <<[id |-> "t1", type |-> "function",
                     function |-> [name |-> "get_weather",
                                   arguments |-> [text |-> "{\"city\":\"Seoul\"}",
                                                  value |-> [city |-> "Seoul"]]]]>>]
ToolResult == [role |-> "tool", tool_call_id |-> "t1", content |-> [string |-> "sunny"]]

RECURSIVE MessageListsOf(_)
MessageListsOf(length) ==
  IF length = 0 THEN {<<>>}
  ELSE {Append(l, m) : l \in MessageListsOf(length - 1),
                       m \in {SystemBrief, SystemKind, UserHi, AssistantHello}}

MessageLists ==
  UNION {MessageListsOf(n) : n \in 1..MaxMessages}
    \cup {<<SystemBrief, UserHi, AssistantCall, ToolResult, SystemKind>>}

\* the base URLs a provider or the plugin options may configure
BaseUrls ==
  {"https://api.anthropic.com", "https://api.anthropic.com/",
   "https://api.kimi.com/coding", "https://api.kimi.com/coding/",
   "https://h.example/v1/messages", "https://h.example/v1/messages/",
   "https://h.example/proxy/v1/messages"}

\* the settings that differ in where a key or a token comes from
Settings ==
  {[provider |-> provider, options |-> options, env |-> env, files |-> files] :
     provider \in {EmptyObject, [api_key |-> "sk-provider"]},
     options \in {EmptyObject, [apiKey |-> "sk-options"]},
     env \in {EmptyObject, [ANTHROPIC_API_KEY |-> "sk-env"]},
     files \in {EmptyObject,
                [gemini |-> [access_token |-> "ya29"]],
                [codex |-> [tokens |-> [access_token |-> "eyJ"]]],
                [gemini |-> [refresh_token |-> "1//"], codex |-> [tokens |-> [refresh_token |-> "rt"]]],
                DefaultSetting.files}}
    \cup {[DefaultSetting EXCEPT !.provider = [api_base_url |-> url]] : url \in BaseUrls}
    \cup {[DefaultSetting EXCEPT !.options = [baseUrl |-> url]] : url \in BaseUrls}

RequestArgs ==
  {[request |-> [model |-> "m1", messages |-> <<UserHi>>, tools |-> tools],
    setting |-> DefaultSetting] : tools \in ToolLists}
    \cup {[request |-> [model |-> "m1", messages |-> messages, stream |-> TRUE],
           setting |-> DefaultSetting] : messages \in MessageLists}
    \cup {[request |-> [model |-> "kimi-k2-thinking", messages |-> <<SystemBrief, UserHi>>,
                        max_tokens |-> 1024],
           setting |-> setting] : setting \in Settings}

\* testSSEProcessing: _processSSEEvent on one state object, which the call changes in
\* place and returns as _state; the chunks it returns but for the state items
ProcessByReference(event, st) ==
  LET chunks == ProcessSSEEvent(event, st)
      items == SelectSeq(chunks, IsStateItem)
  IN [state |-> IF items = <<>> THEN st ELSE items[Len(items)]._state,
      out |-> SelectSeq(chunks, LAMBDA c : ~IsStateItem(c))]

\* the events handed to the body of the line loop, one after the other
MessageDeltaEvents ==
  { [type |-> "message_delta"] @@ delta @@ usage :
      delta \in { EmptyObject, [delta |-> [stop_reason |-> "end_turn"]],
                  [delta |-> [stop_reason |-> "tool_use"]], [delta |-> EmptyObject] },
      usage \in { EmptyObject, [usage |-> [output_tokens |-> 0]],
                  [usage |-> [output_tokens |-> 3]] } }

HandledEvents ==
  MessageDeltaEvents \cup
  { [type |-> "content_block_stop", index |-> 0],
    BlockStart(0, [type |-> "text"]),
    TextHi,
    BlockDelta(0, [type |-> "thinking_delta", thinking |-> "hm"]),
    MessageStart(1),
    BareMessageStart }

EventLists == UNION {ListsOf(HandledEvents, n) : n \in 1..MaxHandled}

\* Cloud-Code stream chunks: text and function-call parts, with and without a
\* candidate index
CandidateIndices == {EmptyObject, [index |-> 0], [index |-> 1], [index |-> 2]}

StreamParts ==
  { <<[text |-> "Hi"]>>,
    <<[functionCall |-> [name |-> "get_weather", args |-> "{\"city\":\"Seoul\"}"]]>>,
    <<[text |-> "Hi"], [functionCall |-> [name |-> "get_weather"]]>>,
    <<>> }

GeminiStreamChunks ==
  {GeminiResponse(parts, extra, GeminiUsage(1, 1)) : parts \in StreamParts,
                                                     extra \in CandidateIndices}

InitFunctions ==
  /\ transformer = "claude"
  /\ pc = "reading"
  /\ buffer = <<>>
  /\ codex = InitCodex
  /\ out = <<>>
  /\ upLine = <<>>
  /\ fed = <<>>
  /\ pending = <<>>
  /\ \/ arg \in {[data |-> d] : d \in StopReasonCarriers} /\ state \in StreamStates
     \/ arg \in {[data |-> d] : d \in Documents} /\ state = InitState
     \/ arg \in {[body |-> d] : d \in GeminiDocuments} /\ state = InitState
     \/ arg \in {[events |-> l] : l \in EventLists} /\ state \in StreamStates
     \/ arg \in {[chunk |-> c] : c \in GeminiStreamChunks} /\ state = InitState
     \/ arg \in {[schema |-> s] : s \in Schemas(MaxDepth)} /\ state = InitState
     \/ arg \in RequestArgs /\ state = InitState
  /\ result = <<>>
  /\ streams = <<>>
  /\ controllerCalls = <<>>

Called(call) == \E i \in 1..Len(result) : result[i].call = call

\* the non-stream transcoder is handed the upstream message
CallTransformJsonResponse ==
  /\ "data" \in DOMAIN arg
  /\ ~Called("json")
  /\ result' = Append(result, [call |-> "json", value |-> JsonFinishReason(arg.data),
                                response |-> TransformJsonResponse(arg.data)])
  /\ UNCHANGED <<transformer, pc, buffer, state, codex, out, upLine, fed, pending, arg, streams,
               controllerCalls>>

\* the stream transcoder is handed a message_delta event carrying the stop reason
CallProcessSSEEvent ==
  /\ "data" \in DOMAIN arg
  /\ "content" \notin DOMAIN arg.data
  /\ ~Called("stream")
  /\ LET chunks == ProcessSSEEvent([type |-> "message_delta", delta |-> arg.data], state)
     IN result' = Append(result, [call |-> "stream", value |-> FinishReason(chunks[1])])
  /\ UNCHANGED <<transformer, pc, buffer, state, codex, out, upLine, fed, pending, arg, streams,
               controllerCalls>>

\* tTool: processJsonSchema on a schema without a $schema key
CallProcessJsonSchema ==
  /\ "schema" \in DOMAIN arg
  /\ result = <<>>
  /\ result' = <<ProcessJsonSchema(arg.schema)>>
  /\ UNCHANGED <<transformer, pc, buffer, state, codex, out, upLine, fed, pending, arg, streams,
               controllerCalls>>

\* processJsonSchema on what the first call returned
CallProcessJsonSchemaAgain ==
  /\ "schema" \in DOMAIN arg
  /\ Len(result) = 1
  /\ ~IsSchemaError(result[1])
  /\ result' = Append(result, ProcessJsonSchema(result[1]))
  /\ UNCHANGED <<transformer, pc, buffer, state, codex, out, upLine, fed, pending, arg, streams,
               controllerCalls>>

\* the router hands a canonical request to the Cloud-Code transcoder
CallGeminiTransformRequestIn ==
  /\ "request" \in DOMAIN arg
  /\ result = <<>>
  /\ result' = <<[call |-> "gemini-cli",
                  value |-> GeminiTransformRequestIn(arg.request, arg.setting.options,
                                                     arg.setting.files)]>>
  /\ UNCHANGED <<transformer, pc, buffer, state, codex, out, upLine, fed, pending, arg, streams,
               controllerCalls>>

\* the router hands a canonical request to the Claude transcoder
CallClaudeTransformRequestIn ==
  /\ "request" \in DOMAIN arg
  /\ result = <<>>
  /\ result' = <<[call |-> "claude-anthropic",
                  value |-> ClaudeTransformRequestIn(arg.request, arg.setting.provider,
                                                     arg.setting.options, arg.setting.env)]>>
  /\ UNCHANGED <<transformer, pc, buffer, state, codex, out, upLine, fed, pending, arg, streams,
               controllerCalls>>

\* the router hands a canonical request to the Kimi transcoder
CallKimiTransformRequestIn ==
  /\ "request" \in DOMAIN arg
  /\ result = <<>>
  /\ result' = <<[call |-> "kimi-anthropic",
                  value |-> KimiTransformRequestIn(arg.request, arg.setting.provider,
                                                   arg.setting.options, arg.setting.env)]>>
  /\ UNCHANGED <<transformer, pc, buffer, state, codex, out, upLine, fed, pending, arg, streams,
               controllerCalls>>

\* the router hands a canonical request to the Responses transcoder
CallChatGPTTransformRequestIn ==
  /\ "request" \in DOMAIN arg
  /\ result = <<>>
  /\ result' = <<[call |-> "chatgpt-oauth",
                  value |-> ChatGPTTransformRequestIn(arg.request, arg.setting.files)]>>
  /\ UNCHANGED <<transformer, pc, buffer, state, codex, out, upLine, fed, pending, arg, streams,
               controllerCalls>>

\* the Cloud-Code transcoder is handed an application/json response
CallGeminiTransformResponseOut ==
  /\ "body" \in DOMAIN arg
  /\ result = <<>>
  /\ result' = <<[call |-> "gemini-json", response |-> GeminiJsonResponse(arg.body)]>>
  /\ UNCHANGED <<transformer, pc, buffer, state, codex, out, upLine, fed, pending, arg, streams,
               controllerCalls>>

\* the body of the line loop is run on the next event: _processSSEEvent on a copy of
\* the closure variables, then the write-back and the enqueues
CallLineBody ==
  /\ "events" \in DOMAIN arg
  /\ Len(result) < Len(arg.events)
  /\ LET acc == IF result = <<>> THEN [state |-> state, codex |-> codex, out |-> <<>>]
                ELSE [result[Len(result)].acc EXCEPT !.out = <<>>]
     IN result' = Append(result,
                         [call |-> "line",
                          acc |-> EnqueueChunks(
                                    ProcessSSEEvent(arg.events[Len(result) + 1], acc.state),
                                    acc)])
  /\ UNCHANGED <<transformer, pc, buffer, state, codex, out, upLine, fed, pending, arg, streams,
               controllerCalls>>

\* gemini-cli: processLine(line, controller) on one data line
CallProcessLine ==
  /\ "chunk" \in DOMAIN arg
  /\ result = <<>>
  /\ result' = <<[call |-> "processLine",
                  enqueued |-> GeminiLine(DataLine(arg.chunk),
                                          [state |-> state, codex |-> codex, out |-> <<>>]).out]>>
  /\ UNCHANGED <<transformer, pc, buffer, state, codex, out, upLine, fed, pending, arg, streams,
               controllerCalls>>

NextFunctions ==
  \/ CallTransformJsonResponse
  \/ CallProcessSSEEvent
  \/ CallProcessJsonSchema
  \/ CallProcessJsonSchemaAgain
  \/ CallGeminiTransformRequestIn
  \/ CallClaudeTransformRequestIn
  \/ CallKimiTransformRequestIn
  \/ CallChatGPTTransformRequestIn
  \/ CallGeminiTransformResponseOut
  \/ CallLineBody
  \/ CallProcessLine

SpecFunctions == InitFunctions /\ [][NextFunctions]_vars

----------------------------------------------------------------------------
(* Several streams open on one transformer instance, their reads interleaved *)

MaxReads == 3
StreamIds == {1, 2}

\* what a call of the stream transcoder creates: the closure variables of the call and
\* the controller of the ReadableStream it returns
OpenStream ==
  [pc |-> "reading", out |-> <<>>, reads |-> <<>>,
   closure |-> [buffer |-> <<>>, state |-> InitState, codex |-> InitCodex]]

\* variant: the stream variables kept on the instance, one copy for all calls
ClosureOnInstance(all, i) == all[1].closure

\* the variables the read loop of stream i works on
Closure(all, i) == all[i].closure

\* one reader.read() that returns a value
ReadStep(t, closure, enqueued, d) ==
  LET acc == [state |-> closure.state, codex |-> closure.codex, out |-> enqueued]
  IN CASE t = "claude" ->
            LET lines == Split(closure.buffer \o d)
                r == ClaudeLines(Front(lines), acc)
            IN [closure |-> [closure EXCEPT !.buffer = Last(lines), !.state = r.state],
                out |-> r.out]
       [] t = "chatgpt" ->
            LET lines == SplitCRLF(closure.buffer \o d)
                r == CodexLines(Front(lines), acc)
            IN [closure |-> [closure EXCEPT !.buffer = Last(lines), !.codex = r.codex],
                out |-> r.out]
       [] t = "gemini" ->
            LET lines == Split(closure.buffer \o d)
                r == GeminiLines(Front(lines), acc)
            IN [closure |-> [closure EXCEPT !.buffer = Last(lines)], out |-> r.out]

\* reader.read() reports done
DoneStep(t, closure, enqueued) ==
  CASE t = "claude" -> Append(enqueued, DONE)
    [] t = "chatgpt" -> enqueued \o <<CodexFinalChunk(closure.codex), DONE>>
    [] t = "gemini" ->
         IF closure.buffer # <<>>
         THEN GeminiLine(closure.buffer,
                         [state |-> closure.state, codex |-> closure.codex,
                          out |-> enqueued]).out
         ELSE enqueued

\* what the upstream of a stream may deliver in one read
StreamDeliveries(t) ==
  CASE t = "claude" ->
         { DataLine(v) \o <<LF>> :
             v \in { MessageStart(1), BlockStart(0, ToolUse("t1", "get_weather")),
                     BlockDelta(0, [type |-> "input_json_delta", partial_json |-> "{}"]),
                     TextHi, EndTurn } }
         \cup { DataLine(TextThere), <<LF>> }
    [] t = "chatgpt" ->
         { DataLine(v) \o <<LF>> :
             v \in { [type |-> "response.created", response |-> [model |-> "gpt-x"]],
                     CodexTextHi,
                     [type |-> "response.output_item.added",
                      item |-> [type |-> "function_call", call_id |-> "call_1",
                                name |-> "get_weather"]],
                     [type |-> "response.function_call_arguments.delta", delta |-> "{}"] } }
         \cup { DataLine(CodexTextHi), <<LF>> }
    [] t = "gemini" -> { DataLine(GeminiTextHi) \o <<LF>>, DataLine(GeminiTextHi), <<LF>> }

InitStreams ==
  /\ transformer \in Transformers
  /\ pc = "reading"
  /\ buffer = <<>>
  /\ state = InitState
  /\ codex = InitCodex
  /\ out = <<>>
  /\ upLine = <<>>
  /\ fed = <<>>
  /\ pending = <<>>
  /\ arg = <<>>
  /\ result = <<>>
  /\ streams = [i \in StreamIds |-> OpenStream]
  /\ controllerCalls = <<>>

ReadsMade == Len(streams[1].reads) + Len(streams[2].reads)

\* the read loop of stream i gets a value
StreamRead(i, d) ==
  /\ streams[i].pc = "reading"
  /\ ReadsMade < MaxReads
  /\ LET r == ReadStep(transformer, Closure(streams, i), streams[i].out, d)
     IN streams' = [streams EXCEPT ![i] = [pc |-> "reading", out |-> r.out,
                                           reads |-> Append(streams[i].reads, d),
                                           closure |-> r.closure]]
  /\ UNCHANGED <<transformer, pc, buffer, state, codex, out, upLine, fed, pending, arg, result,
               controllerCalls>>

\* the read loop of stream i is told the upstream is done
StreamDone(i) ==
  /\ streams[i].pc = "reading"
  /\ streams' = [streams EXCEPT
                   ![i].pc = "closed",
                   ![i].out = DoneStep(transformer, Closure(streams, i), streams[i].out)]
  /\ UNCHANGED <<transformer, pc, buffer, state, codex, out, upLine, fed, pending, arg, result,
               controllerCalls>>

\* the read of stream i rejects
StreamFail(i) ==
  /\ streams[i].pc = "reading"
  /\ streams' = [streams EXCEPT ![i].pc = "errored"]
  /\ UNCHANGED <<transformer, pc, buffer, state, codex, out, upLine, fed, pending, arg, result,
               controllerCalls>>

NextStreams ==
  \E i \in StreamIds :
    \/ \E d \in StreamDeliveries(transformer) : StreamRead(i, d)
    \/ StreamDone(i)
    \/ StreamFail(i)

SpecStreams == InitStreams /\ [][NextStreams]_vars

----------------------------------------------------------------------------
(* The Kimi stream transcoder, run next to the Claude one on the same deliveries *)

\* KimiAnthropicTransformer._mapStopReason
KimiMapStopReason(stopReason) ==
  CASE stopReason = "end_turn" -> "stop"
    [] stopReason = "max_tokens" -> "length"
    [] stopReason = "tool_use" -> "tool_calls"
    [] stopReason = "stop_sequence" -> "stop"
    [] OTHER -> IF stopReason \in {"", null, undefined} THEN null ELSE stopReason

\* KimiAnthropicTransformer._processSSEEvent: the chunks returned, state items included
KimiProcessSSEEvent(event, st) ==
  LET type == Get(event, "type")
      message == IF "message" \in DOMAIN event THEN event.message ELSE EmptyObject
      block == IF "content_block" \in DOMAIN event THEN event.content_block ELSE EmptyObject
      delta == IF "delta" \in DOMAIN event THEN event.delta ELSE EmptyObject
      usage == IF "usage" \in DOMAIN event THEN event.usage ELSE EmptyObject
      toolIndex == Len(st.toolCallsBuffer) - 1
  IN CASE type = "message_start" ->
            LET started ==
                  [st EXCEPT
                     !.messageId = OrStr(Get(message, "id"), GeneratedId),
                     !.model = OrStr(Get(message, "model"), ""),
                     !.inputTokens =
                        IF "usage" \in DOMAIN message /\ "input_tokens" \in DOMAIN message.usage
                        THEN message.usage.input_tokens ELSE 0,
                     !.hasEmittedRole = TRUE]
            IN <<Chunk(started.messageId, started.model,
                       [role |-> "assistant", content |-> ""], null),
                 StateItem(started)>>
       [] type = "content_block_start" ->
            LET typed ==
                  [st EXCEPT
                     !.currentBlockIndex = IF "index" \in DOMAIN event THEN event.index ELSE @,
                     !.currentBlockType = Get(block, "type")]
                pushed ==
                  [typed EXCEPT
                     !.toolCallsBuffer =
                        Append(@, [id |-> Get(block, "id"), type |-> "function",
                                   function |-> [name |-> Get(block, "name"),
                                                 arguments |-> ""]])]
            IN IF Get(block, "type") = "tool_use"
               THEN <<Chunk(st.messageId, st.model,
                            [tool_calls |->
                               <<[index |-> toolIndex + 1, id |-> Get(block, "id"),
                                  type |-> "function",
                                  function |-> [name |-> Get(block, "name"),
                                                arguments |-> ""]]>>],
                            null),
                      StateItem(pushed)>>
               ELSE <<StateItem(typed)>>
       [] type = "content_block_delta" ->
            IF Get(delta, "type") = "text_delta"
            THEN <<Chunk(st.messageId, st.model,
                         [content |-> OrStr(Get(delta, "text"), "")], null),
                   StateItem(st)>>
            ELSE IF Get(delta, "type") = "thinking_delta"
            THEN <<Chunk(st.messageId, st.model,
                         [reasoning_content |-> OrStr(Get(delta, "thinking"), "")], null),
                   StateItem(st)>>
            ELSE IF Get(delta, "type") = "input_json_delta" /\ toolIndex >= 0
            THEN <<Chunk(st.messageId, st.model,
                         [tool_calls |->
                            <<[index |-> toolIndex,
                               function |->
                                 [arguments |-> OrStr(Get(delta, "partial_json"), "")]]>>],
                         null),
                   StateItem([st EXCEPT
                                !.toolCallsBuffer[toolIndex + 1].function.arguments =
                                   @ \o OrStr(Get(delta, "partial_json"), "")])>>
            ELSE <<StateItem(st)>>
       [] type = "content_block_stop" ->
            <<StateItem([st EXCEPT !.currentBlockType = null])>>
       [] type = "message_delta" ->
            LET counted ==
                  [st EXCEPT
                     !.outputTokens =
                        IF "output_tokens" \in DOMAIN usage /\ usage.output_tokens # 0
                        THEN usage.output_tokens ELSE @]
            IN <<UsageChunk(st.messageId, st.model, EmptyObject,
                            KimiMapStopReason(Get(delta, "stop_reason")),
                            [prompt_tokens |-> counted.inputTokens,
                             completion_tokens |-> counted.outputTokens,
                             total_tokens |-> counted.inputTokens + counted.outputTokens]),
                 StateItem(counted)>>
       [] OTHER -> <<>>

\* for (const chunk of chunks): the write-back of a state item, the enqueue of a chunk
RECURSIVE KimiEnqueue(_, _)
KimiEnqueue(chunks, acc) ==
  IF chunks = <<>> THEN acc
  ELSE KimiEnqueue(
         Tail(chunks),
         IF IsStateItem(Head(chunks))
         THEN [acc EXCEPT
                 !.state.messageId = OrStr(Head(chunks)._state.messageId, @),
                 !.state.model = OrStr(Head(chunks)._state.model, @),
                 !.state.currentBlockIndex = Head(chunks)._state.currentBlockIndex,
                 !.state.currentBlockType = Nullish(Head(chunks)._state.currentBlockType, @),
                 !.state.toolCallsBuffer = Head(chunks)._state.toolCallsBuffer,
                 !.state.inputTokens = Head(chunks)._state.inputTokens,
                 !.state.outputTokens = Head(chunks)._state.outputTokens,
                 !.state.hasEmittedRole = Head(chunks)._state.hasEmittedRole]
         ELSE [acc EXCEPT !.out = Append(@, Head(chunks))])

\* the body of `for (const line of lines)` for one line
KimiLine(line, acc) ==
  IF StartsWith(line, EventPrefix) THEN acc
  ELSE IF ~StartsWith(line, DataPrefix) THEN acc
  ELSE IF Trim(Slice(line, Len(DataPrefix))) = <<>> THEN acc
  ELSE IF ~JsonParses(Trim(Slice(line, Len(DataPrefix)))) THEN acc
  ELSE IF ~IsObject(JsonValue(Trim(Slice(line, Len(DataPrefix))))) THEN acc
  ELSE KimiEnqueue(
         KimiProcessSSEEvent(JsonValue(Trim(Slice(line, Len(DataPrefix)))), acc.state), acc)

RECURSIVE KimiLines(_, _)
KimiLines(lines, acc) ==
  IF lines = <<>> THEN acc
  ELSE KimiLines(Tail(lines), KimiLine(Head(lines), acc))

\* what a call of the Kimi stream transcoder creates
KimiOpen == [pc |-> "reading", buffer |-> <<>>, state |-> InitState, out |-> <<>>]

\* variant: the done branch closes without the sentinel
KimiDoneSilent(kimi) == [kimi EXCEPT !.pc = "closed"]

\* reader.read() reports done
KimiDone(kimi) == [kimi EXCEPT !.pc = "closed", !.out = Append(@, DONE)]

\* one reader.read() that returns a value
KimiRead(kimi, d) ==
  LET r == KimiLines(Front(Split(kimi.buffer \o d)), [state |-> kimi.state, out |-> kimi.out])
  IN [kimi EXCEPT !.buffer = Last(Split(kimi.buffer \o d)), !.state = r.state, !.out = r.out]

InitTwins ==
  /\ transformer = "claude"
  /\ pc = "reading"
  /\ buffer = <<>>
  /\ state = InitState
  /\ codex = InitCodex
  /\ out = <<>>
  /\ upLine = <<>>
  /\ fed = <<>>
  /\ pending = <<>>
  /\ arg = <<>>
  /\ result = <<>>
  /\ streams = <<KimiOpen>>
  /\ controllerCalls = <<>>

\* both transcoders read the same delivery
TwinsRead(d) ==
  /\ Within(d)
  /\ ClaudeRead(d)
  /\ streams' = <<KimiRead(streams[1], d)>>
  /\ UNCHANGED <<pending, arg, result>>

\* both are told the upstream is done
TwinsDone ==
  /\ ClaudeDone
  /\ streams' = <<KimiDone(streams[1])>>
  /\ UNCHANGED <<pending, arg, result>>

\* the read of both rejects
TwinsFail ==
  /\ ReadFail
  /\ streams' = <<[streams[1] EXCEPT !.pc = "errored"]>>
  /\ UNCHANGED <<pending, arg, result>>

NextTwins ==
  \/ \E d \in ClaudeWhole : TwinsRead(d)
  \/ \E d \in ClaudePartial : upLine = <<>> /\ TwinsRead(d)
  \/ TwinsDone
  \/ TwinsFail

SpecTwins == InitTwins /\ [][NextTwins]_vars

----------------------------------------------------------------------------
(* Properties of the streams *)

RECURSIVE Concat(_)
Concat(strings) ==
  IF strings = <<>> THEN "" ELSE Head(strings) \o Concat(Tail(strings))

IsPrefix(a, b) == Len(a) <= Len(b) /\ SubSeq(b, 1, Len(a)) = a
IsSuffix(a, b) == Len(a) <= Len(b) /\ SubSeq(b, Len(b) - Len(a) + 1, Len(b)) = a

IsBlockDelta(e, dtype) ==
  /\ Get(e, "type") = "content_block_delta"
  /\ "delta" \in DOMAIN e
  /\ Get(e.delta, "type") = dtype
IsBlockStart(e) == Get(e, "type") = "content_block_start"
IsToolStart(e) == IsBlockStart(e) /\ e.content_block.type = "tool_use"
IsMessageStart(e) == Get(e, "type") = "message_start"
IsMessageDelta(e) == Get(e, "type") = "message_delta"

\* the positions of the chunks of the output that satisfy a condition
ChunksOut == {i \in 1..Len(out) : IsChunk(out[i])}
ContentChunk(c) == IsChunk(c) /\ "content" \in DOMAIN Delta(c) /\ "role" \notin DOMAIN Delta(c)
RoleChunks == {i \in ChunksOut : "role" \in DOMAIN Delta(out[i])}
UsageChunks == {i \in ChunksOut : "usage" \in DOMAIN out[i]}
FinishChunks == {i \in ChunksOut : FinishReason(out[i]) # null}
Sentinels == {i \in 1..Len(out) : out[i] = DONE}

\* ---- C1 ----

TextFragments ==
  LET T == SelectSeq(fed, LAMBDA e : IsBlockDelta(e, "text_delta"))
  IN [i \in 1..Len(T) |-> T[i].delta.text]

EmittedContent ==
  LET C == SelectSeq(out, ContentChunk)
  IN [i \in 1..Len(C) |-> Delta(C[i]).content]

\* C1: in an Anthropic-style stream the concatenation of the delta.content values of
\* the emitted chunks, in emission order and without the role chunk, equals the
\* concatenation of the text_delta fragments sent so far, in the order they were sent
TextOrderPreserved ==
  transformer = "claude" => Concat(EmittedContent) = Concat(TextFragments)

\* two text fragments, with another event between them, have been sent and emitted
TextOrderWitness ==
  /\ transformer = "claude"
  /\ Len(fed) = 3
  /\ TextFragments = <<"Hi", " there">>
  /\ Concat(EmittedContent) = "Hi there"

\* ---- C2 ----

\* the position in the upstream of the k-th tool_use block start
ToolStartAt(k) ==
  CHOOSE i \in 1..Len(fed) :
    /\ IsToolStart(fed[i])
    /\ Cardinality({j \in 1..i : IsToolStart(fed[j])}) = k

\* the input_json_delta fragments sent at positions lo..hi whose block index is in a set
JsonFragments(lo, hi, indices) ==
  LET F == SelectSeq(SubSeq(fed, lo, hi),
                     LAMBDA e : IsBlockDelta(e, "input_json_delta") /\ e.index \in indices)
  IN Concat([i \in 1..Len(F) |-> F[i].delta.partial_json])

Arguments(k) == state.toolCallsBuffer[k].function.arguments

\* C2, as claimed: the arguments of every buffer entry are the concatenation of the
\* fragments, sent after the entry's block start, whose block index is the index of
\* that block start
ArgumentsByBlockIndex ==
  transformer = "claude" =>
    \A k \in 1..Len(state.toolCallsBuffer) :
      Arguments(k) = JsonFragments(ToolStartAt(k) + 1, Len(fed), {fed[ToolStartAt(k)].index})

\* C2, amended: the arguments of every buffer entry are the concatenation of the
\* fragments sent after the entry's block start and before the next tool_use block
\* start, whatever block index they carry
ArgumentsByArrival ==
  transformer = "claude" =>
    /\ Len(state.toolCallsBuffer) = Cardinality({i \in 1..Len(fed) : IsToolStart(fed[i])})
    /\ \A k \in 1..Len(state.toolCallsBuffer) :
         Arguments(k) =
           JsonFragments(ToolStartAt(k) + 1,
                         IF k < Len(state.toolCallsBuffer)
                         THEN ToolStartAt(k + 1) - 1 ELSE Len(fed),
                         Nat)

\* one tool call has received the two fragments of its arguments
ArgumentsWitness ==
  /\ transformer = "claude"
  /\ Len(state.toolCallsBuffer) = 1
  /\ JsonFragments(1, Len(fed), {0}) = "{\"city\":\"Seoul\"}"
  /\ Arguments(1) = "{\"city\":\"Seoul\"}"

\* ---- C3 ----

MessageDeltas == SelectSeq(fed, IsMessageDelta)

\* C3, as claimed: once a stream in which a message_delta was sent has ended, exactly
\* one chunk carries a non-null finish_reason, it is the chunk emitted for the last
\* message_delta, and every chunk after it carries a non-null finish_reason
FinishExactlyOnce ==
  transformer = "claude" /\ pc = "closed" /\ MessageDeltas # <<>> =>
    /\ Cardinality(FinishChunks) = 1
    /\ \A i \in FinishChunks :
         /\ \A u \in UsageChunks : u <= i
         /\ \A j \in ChunksOut : j > i => FinishReason(out[j]) # null

\* the upstream sent one message_delta, with a stop reason, and nothing that emits a
\* chunk after it
OneTerminalDelta ==
  /\ Len(MessageDeltas) = 1
  /\ IsMessageDelta(Last(fed))
  /\ "delta" \in DOMAIN Last(fed)
  /\ OrStr(Get(Last(fed).delta, "stop_reason"), "") # ""

\* C3, amended: in a stream whose only message_delta carries a stop reason and is
\* followed by no event that emits a chunk, exactly one chunk carries a non-null
\* finish_reason, it is the chunk emitted for that message_delta, and it is the last
\* chunk emitted
FinishOnTerminalDelta ==
  transformer = "claude" /\ OneTerminalDelta =>
    /\ Cardinality(FinishChunks) = 1
    /\ FinishChunks = UsageChunks
    /\ \A i \in FinishChunks : \A j \in ChunksOut : j <= i

\* a stream of a role chunk, a text fragment and the terminal message_delta has ended
FinishWitness ==
  /\ transformer = "claude"
  /\ pc = "closed"
  /\ Len(fed) = 3
  /\ OneTerminalDelta
  /\ \E i \in FinishChunks : i = 3 /\ FinishReason(out[i]) = "stop"

\* ---- C4 ----

RECURSIVE NonDecreasing(_)
NonDecreasing(ns) ==
  Len(ns) < 2 \/ (ns[1] <= ns[2] /\ NonDecreasing(Tail(ns)))

\* the usage objects of the emitted chunks, in emission order
Usages ==
  LET U == SelectSeq(out, LAMBDA c : IsChunk(c) /\ "usage" \in DOMAIN c)
  IN [i \in 1..Len(U) |-> U[i].usage]

UsageField(f) == [i \in 1..Len(Usages) |-> Usages[i][f]]

\* C4, as claimed: the prompt, completion and total token counts of the successive
\* chunks that carry usage each form a non-decreasing sequence
UsageNonDecreasing ==
  transformer = "claude" =>
    /\ NonDecreasing(UsageField("prompt_tokens"))
    /\ NonDecreasing(UsageField("completion_tokens"))
    /\ NonDecreasing(UsageField("total_tokens"))

\* the input counts of the message_start events sent (0 when absent)
InputCounts ==
  LET M == SelectSeq(fed, IsMessageStart)
  IN [i \in 1..Len(M) |->
        IF "message" \in DOMAIN M[i] /\ "usage" \in DOMAIN M[i].message
        THEN M[i].message.usage.input_tokens ELSE 0]

\* the output counts of the message_delta events sent that carry a non-zero one
OutputCounts ==
  LET M == SelectSeq(fed, LAMBDA e : IsMessageDelta(e) /\ "usage" \in DOMAIN e
                                     /\ e.usage.output_tokens # 0)
  IN [i \in 1..Len(M) |-> M[i].usage.output_tokens]

\* C4, amended: when the counts sent by the upstream do not decrease, the prompt,
\* completion and total token counts of the successive chunks that carry usage each
\* form a non-decreasing sequence
UsageFollowsUpstream ==
  transformer = "claude" /\ NonDecreasing(InputCounts) /\ NonDecreasing(OutputCounts) =>
    /\ NonDecreasing(UsageField("prompt_tokens"))
    /\ NonDecreasing(UsageField("completion_tokens"))
    /\ NonDecreasing(UsageField("total_tokens"))

\* two chunks carry usage, and the counts grew between them
UsageWitness ==
  /\ transformer = "claude"
  /\ NonDecreasing(InputCounts) /\ NonDecreasing(OutputCounts)
  /\ UsageField("completion_tokens") = <<1, 2>>
  /\ UsageField("prompt_tokens") = <<0, 1>>

\* ---- C5 ----

\* C5: in an Anthropic-style and in a Responses/Codex-style stream at most one emitted
\* chunk has delta.role set, and if one has it, it is the first record emitted
RoleOnceAndFirst ==
  transformer \in {"claude", "chatgpt"} =>
    /\ Cardinality(RoleChunks) <= 1
    /\ RoleChunks \subseteq {1}

\* ---- C6 ----

\* the entries of a are the first entries of b, each with its arguments extended
BufferExtends(a, b) ==
  /\ Len(a) <= Len(b)
  /\ \A k \in 1..Len(a) :
       /\ b[k].id = a[k].id
       /\ b[k].function.name = a[k].function.name
       /\ IsPrefix(a[k].function.arguments, b[k].function.arguments)

\* C6: in an Anthropic-style stream every step leaves the entries of the tool-call
\* buffer in place, with the same id and name, and only extends their arguments
BufferAppendOnly ==
  [][transformer = "claude" =>
       BufferExtends(state.toolCallsBuffer, state'.toolCallsBuffer)]_vars

\* a tool call with arguments is still in the buffer after a later message_start
BufferWitness ==
  /\ transformer = "claude"
  /\ Len(fed) = 3
  /\ IsToolStart(fed[1])
  /\ IsMessageStart(fed[3])
  /\ Len(state.toolCallsBuffer) = 1
  /\ Arguments(1) = "{\"city\":"

\* ---- C7 ----

\* C7, as claimed: in an Anthropic-style stream no step lowers currentBlockIndex
BlockIndexNonDecreasing ==
  [][transformer = "claude" =>
       state'.currentBlockIndex >= state.currentBlockIndex]_vars

\* the indices of the content_block_start events sent
StartIndices ==
  LET B == SelectSeq(fed, LAMBDA e : IsBlockStart(e) /\ "index" \in DOMAIN e)
  IN [i \in 1..Len(B) |-> B[i].index]

\* C7, amended: currentBlockIndex is the index of the last content_block_start that
\* carried one (0 before any), so no step lowers it as long as the indices the
\* upstream sends do not decrease
BlockIndexFollowsUpstream ==
  /\ [][transformer = "claude" /\ NonDecreasing(StartIndices') =>
          state'.currentBlockIndex >= state.currentBlockIndex]_vars
  /\ [](transformer = "claude" =>
          state.currentBlockIndex =
            IF StartIndices = <<>> THEN 0 ELSE Last(StartIndices))

\* two blocks with rising indices have started
BlockIndexWitness ==
  /\ transformer = "claude"
  /\ StartIndices = <<0, 1>>
  /\ state.currentBlockIndex = 1

\* ---- C8 ----

\* C8: the text scenario followed by a clean end of the upstream produces a role
\* chunk, the content chunks "Hi" and " there", a terminal chunk with finish_reason
\* "stop" and completion_tokens 2, then the sentinel, and nothing else
ScenarioOutput ==
  pc = "closed" =>
    /\ Len(out) = 5
    /\ \A i \in 1..4 : IsChunk(out[i]) /\ out[i].model = "m1"
    /\ Delta(out[1]) = [role |-> "assistant", content |-> ""]
    /\ Delta(out[2]) = [content |-> "Hi"]
    /\ Delta(out[3]) = [content |-> " there"]
    /\ \A i \in 1..3 : FinishReason(out[i]) = null /\ "usage" \notin DOMAIN out[i]
    /\ Delta(out[4]) = EmptyObject
    /\ FinishReason(out[4]) = "stop"
    /\ out[4].usage.completion_tokens = 2
    /\ out[5] = DONE

\* the whole scenario was delivered, its last line unterminated, and the stream ended
ScenarioWitness ==
  /\ pc = "closed"
  /\ pending = <<>>
  /\ buffer = DataLine([type |-> "message_stop"])
  /\ Len(fed) = 5
  /\ Len(out) = 5

\* ---- C9 ----

\* C9: in an Anthropic-style and in a Responses/Codex-style stream no sentinel is
\* emitted while the upstream is read, whatever events and lines arrive, and once
\* the upstream has ended cleanly the output holds one sentinel, as its last record
SentinelAtCleanEnd ==
  transformer \in {"claude", "chatgpt"} =>
    IF pc = "closed"
    THEN Cardinality(Sentinels) = 1 /\ Sentinels = {Len(out)}
    ELSE Sentinels = {}

\* an Anthropic-style stream has ended after its chunks, the sentinel last
SentinelWitness ==
  /\ transformer = "claude"
  /\ pc = "closed"
  /\ Len(fed) = 2
  /\ Len(out) = 3
  /\ out[3] = DONE

\* ---- C10 ----

\* the chunks the line handler yields for the carried line
CarriedYield ==
  LET acc == [state |-> state, codex |-> codex, out |-> <<>>]
  IN CASE transformer = "claude" -> ClaudeLine(buffer, acc).out
       [] transformer = "chatgpt" -> CodexLine(buffer, acc).out
       [] transformer = "gemini" -> GeminiLine(buffer, acc).out

\* the output without the records that signal completion
BeforeCompletion ==
  CASE transformer = "claude" -> SubSeq(out, 1, Len(out) - 1)
    [] transformer = "chatgpt" -> SubSeq(out, 1, Len(out) - 2)
    [] transformer = "gemini" -> out

\* C10: when the upstream ends cleanly while the framing buffer holds a partial line,
\* the chunks that line yields are emitted before completion is signalled
CarriedLineFlushed ==
  pc = "closed" /\ buffer # <<>> => IsSuffix(CarriedYield, BeforeCompletion)

\* ---- C11 ----

\* C11: a failed read puts the output stream in error without emitting anything and
\* without touching the handler state (the carried line is not processed, no
\* sentinel), and nothing happens on the stream afterwards
FailedReadEmitsNothing ==
  [][/\ pc' = "errored" => pc = "reading" /\ out' = out /\ state' = state /\ codex' = codex
     /\ pc = "errored" => pc' = "errored"]_vars

\* a read failed after chunks were emitted, while a line that yields a chunk was carried
FailedReadWitness ==
  /\ pc = "errored"
  /\ out # <<>>
  /\ buffer # <<>>
  /\ CarriedYield # <<>>
  /\ Sentinels = {}

\* ---- C12 ----

\* data lines whose payload is not JSON, or is JSON but not an object
MalformedLines ==
  { DataPrefix \o <<SP, Ch("{\"type\":")>>,
    DataPrefix \o <<SP, Ch("not json")>>,
    DataPrefix \o <<SP, Json(JsonNull)>> }

\* what the line handler of the stream makes of one line in the current state
HandleLine(line) ==
  CASE transformer = "claude" -> ClaudeLine(line, Acc)
    [] transformer = "chatgpt" -> CodexLine(line, Acc)
    [] transformer = "gemini" -> GeminiLine(line, Acc)

\* C12: in every state of a stream, a data line with a malformed payload emits no
\* chunk and leaves the handler state as it is, so the lines after it are handled
\* as if it had not been sent
MalformedLineSkipped ==
  \A line \in MalformedLines : HandleLine(line) = Acc

\* a stream with output, handler state and a carried partial line, still reading
MalformedLineWitness ==
  /\ pc = "reading"
  /\ transformer = "claude"
  /\ state.toolCallsBuffer # <<>>
  /\ state.messageId # ""
  /\ Len(out) = 3
  /\ \A line \in MalformedLines : HandleLine(line) = Acc

\* ---- C13 ----

\* events of the kinds the Anthropic-style handler has no output for
IgnoredEvents ==
  { [type |-> "ping"],
    [type |-> "error", error |-> [type |-> "overloaded_error", message |-> "Overloaded"]],
    [type |-> "message_stop"],
    [type |-> "future_event", index |-> 1],
    BlockDelta(1, [type |-> "signature_delta", signature |-> "sig"]),
    BlockDelta(1, [type |-> "citations_delta"]),
    [type |-> "content_block_delta", index |-> 1] }

RECURSIVE KindsOf(_, _)
KindsOf(events, toolSeen) ==
  IF events = <<>> THEN <<>>
  ELSE LET e == Head(events)
           kind == CASE IsMessageStart(e) -> <<"role">>
                     [] IsBlockStart(e) /\ IsToolStart(e) -> <<"tool">>
                     [] IsBlockDelta(e, "text_delta") -> <<"text">>
                     [] IsBlockDelta(e, "thinking_delta") -> <<"reasoning">>
                     [] IsBlockDelta(e, "input_json_delta") /\ toolSeen -> <<"args">>
                     [] IsMessageDelta(e) -> <<"terminal">>
                     [] OTHER -> <<>>
       IN kind \o KindsOf(Tail(events), toolSeen \/ (IsBlockStart(e) /\ IsToolStart(e)))

ChunkKind(c) ==
  CASE ~IsChunk(c) -> "sentinel"
    [] "usage" \in DOMAIN c -> "terminal"
    [] "role" \in DOMAIN Delta(c) -> "role"
    [] "content" \in DOMAIN Delta(c) -> "text"
    [] "reasoning_content" \in DOMAIN Delta(c) -> "reasoning"
    [] "tool_calls" \in DOMAIN Delta(c) /\ "id" \in DOMAIN Delta(c).tool_calls[1] -> "tool"
    [] "tool_calls" \in DOMAIN Delta(c) -> "args"
    [] OTHER -> "other"

\* the events handled one after the other, each one's chunks enqueued before the next
RECURSIVE Replay(_, _)
Replay(events, acc) ==
  IF events = <<>> THEN acc
  ELSE Replay(Tail(events),
              EnqueueChunks(ProcessSSEEvent(Head(events), acc.state), acc))

\* C14: in an Anthropic-style stream the output is, at every moment, the chunks of
\* the events sent so far, one list per event, in event order: no chunk is held
\* back, merged or moved, whatever the kinds of the chunks
EagerInOrder ==
  transformer = "claude" =>
    LET r == Replay(fed, [state |-> InitState, codex |-> InitCodex, out |-> <<>>])
        closing == IF pc = "closed" THEN <<DONE>> ELSE <<>>
        closingKind == IF pc = "closed" THEN <<"sentinel">> ELSE <<>>
    IN /\ out = r.out \o closing
       /\ state = r.state
       /\ [i \in 1..Len(out) |-> ChunkKind(out[i])] = KindsOf(fed, FALSE) \o closingKind

\* three events of different kinds were sent and answered, the upstream still open
EagerWitness ==
  /\ transformer = "claude"
  /\ pc = "reading"
  /\ KindsOf(fed, FALSE) = <<"tool", "args", "text">>
  /\ Len(out) = 3

\* ---- C15 ----

\* the part of the byte stream delivered so far
Delivered ==
  SubSeq(FramingWire(transformer), 1, Len(FramingWire(transformer)) - Len(pending))

\* the handler state and output had the same bytes come in one delivery
OneDelivery ==
  LET acc == [state |-> InitState, codex |-> InitCodex, out |-> <<>>]
  IN CASE transformer = "claude" -> ClaudeLines(Front(Split(Delivered)), acc)
       [] transformer = "chatgpt" -> CodexLines(Front(SplitCRLF(Delivered)), acc)
       [] transformer = "gemini" -> GeminiLines(Front(Split(Delivered)), acc)

\* the records a clean end adds after the same bytes came in one delivery
OneDeliveryEnd ==
  LET carried == Last(Split(Delivered))
  IN CASE transformer = "claude" -> <<DONE>>
       [] transformer = "chatgpt" -> <<CodexFinalChunk(OneDelivery.codex), DONE>>
       [] transformer = "gemini" ->
            IF carried # <<>>
            THEN GeminiLine(carried, [OneDelivery EXCEPT !.out = <<>>]).out ELSE <<>>

LineFeeds(text) == Cardinality({i \in 1..Len(text) : text[i] = LF})

\* C15: however the byte stream was cut into deliveries, the handler state, the
\* carried partial line and the output records are those of a single delivery of the
\* same bytes, and while the upstream is open no record comes from a line whose
\* line feed has not arrived
FramingIndependent ==
  /\ state = OneDelivery.state
  /\ codex = OneDelivery.codex
  /\ buffer = Last(Split(Delivered))
  /\ out = OneDelivery.out \o (IF pc = "closed" THEN OneDeliveryEnd ELSE <<>>)
  /\ pc = "reading" => Len(out) <= LineFeeds(Delivered)
  /\ pc = "reading" /\ LineFeeds(Delivered) = 0 => out = <<>>

\* a delivery ended in the middle of the data prefix, after records were emitted
FramingWitness ==
  /\ pc = "reading"
  /\ buffer = <<Ch("da")>>
  /\ Len(out) >= 2
  /\ pending # <<>>

\* ---- C16 ----

\* the table of the finish-reason mapping: unlisted values, the empty string among
\* them, map to themselves; null and an absent stop reason map to null
StopReasonTable(x) ==
  CASE x = "end_turn" -> "stop"
    [] x = "max_tokens" -> "length"
    [] x = "tool_use" -> "tool_calls"
    [] x = "stop_sequence" -> "stop"
    [] x \in {null, undefined} -> null
    [] OTHER -> x

\* C16: the finish reason computed from a stop reason equals the table's entry for it,
\* in the non-stream transcoder and in the stream transcoder in whatever state the
\* stream is; in particular the empty string maps to the empty string
FinishReasonIsTable ==
  "data" \in DOMAIN arg =>
    \A i \in 1..Len(result) :
      result[i].value = StopReasonTable(Get(arg.data, "stop_reason"))

\* ---- C18 ----

\* the fragments of a schema: the schema itself and, at any depth, what is under
\* items, under a key of properties and in anyOf
RECURSIVE Fragments(_)
Fragments(S) ==
  {S} \cup (IF "items" \in DOMAIN S THEN Fragments(S.items) ELSE {})
      \cup (IF "properties" \in DOMAIN S
            THEN UNION {Fragments(S.properties[key]) : key \in DOMAIN S.properties}
            ELSE {})
      \cup (IF "anyOf" \in DOMAIN S
            THEN UNION {Fragments(S.anyOf[i]) : i \in 1..Len(S.anyOf)}
            ELSE {})

BothTypeAndAnyOf(S) == \E f \in Fragments(S) : "type" \in DOMAIN f /\ "anyOf" \in DOMAIN f

\* C18: the adapter fails on every schema in which some fragment, the non-null element
\* of a two-element nullable anyOf included, has both type and anyOf, and no schema it
\* returns has a fragment with both
ConflictDetected ==
  "schema" \in DOMAIN arg /\ result # <<>> =>
    /\ BothTypeAndAnyOf(arg.schema) => IsSchemaError(result[1])
    /\ \A i \in 1..Len(result) : ~IsSchemaError(result[i]) => ~BothTypeAndAnyOf(result[i])

\* ---- C17 ----

\* C17: when the adapter succeeds on a schema, it succeeds on its own output too and
\* returns that output unchanged
SecondPassChangesNothing ==
  "schema" \in DOMAIN arg /\ Len(result) = 2 =>
    ~IsSchemaError(result[2]) /\ result[2] = result[1]

\* ---- C19 ----

\* the type the adapter is to emit for a JSON-Schema type name
EmittedType(t) ==
  CASE t = "string" -> "STRING"
    [] t = "number" -> "NUMBER"
    [] t = "integer" -> "INTEGER"
    [] t = "boolean" -> "BOOLEAN"
    [] t = "array" -> "ARRAY"
    [] t = "object" -> "OBJECT"
    [] OTHER -> "TYPE_UNSPECIFIED"

\* C19: the output for a fragment whose type is an array T is nullable exactly when T
\* contains "null"; when one type remains without "null" the output has it as its
\* upper-cased scalar type (TYPE_UNSPECIFIED outside the enumeration) and no anyOf; when
\* several remain it has no type and an anyOf of one single-type schema per remaining
\* type, in order; {type: ["string", "null"]} gives exactly {type: STRING, nullable: true}
TypeArrayFlattened ==
  /\ "schema" \in DOMAIN arg
  /\ "type" \in DOMAIN arg.schema
  /\ IsTypeList(arg.schema.type)
  /\ result # <<>>
  /\ ~IsSchemaError(result[1])
  => LET T == arg.schema.type.list
         remaining == SelectSeq(T, LAMBDA t : t # "null")
         output == result[1]
     IN /\ ("nullable" \in DOMAIN output /\ output.nullable = TRUE)
             <=> (\E i \in 1..Len(T) : T[i] = "null")
        /\ Len(remaining) = 1 =>
             /\ "type" \in DOMAIN output
             /\ output.type = [scalar |-> EmittedType(remaining[1])]
             /\ "anyOf" \notin DOMAIN output
        /\ Len(remaining) > 1 =>
             /\ "type" \notin DOMAIN output
             /\ "anyOf" \in DOMAIN output
             /\ output.anyOf = [i \in 1..Len(remaining) |->
                                  [type |-> [scalar |-> EmittedType(remaining[i])]]]
        /\ arg.schema = [type |-> [list |-> <<"string", "null">>]] =>
             output = [type |-> [scalar |-> "STRING"], nullable |-> TRUE]

\* a nullable array of a three-name type list was converted
TypeArrayWitness ==
  /\ "schema" \in DOMAIN arg
  /\ arg.schema = [type |-> [list |-> <<"array", "null">>],
                   items |-> [type |-> [list |-> <<"integer", "null", "boolean">>]]]
  /\ result # <<>>
  /\ result[1] = [type |-> [scalar |-> "ARRAY"], nullable |-> TRUE,
                  items |-> [nullable |-> TRUE,
                             anyOf |-> <<[type |-> [scalar |-> "INTEGER"]],
                                         [type |-> [scalar |-> "BOOLEAN"]]>>]]

\* ---- C20 ----

\* the fragment has an anyOf of exactly two elements, exactly one the bare {type: "null"}
NullableAnyOf(S) ==
  /\ "anyOf" \in DOMAIN S
  /\ Len(S.anyOf) = 2
  /\ (S.anyOf[1] = NullSchema) # (S.anyOf[2] = NullSchema)

OtherElement(S) == IF S.anyOf[1] = NullSchema THEN S.anyOf[2] ELSE S.anyOf[1]

\* C20: for a fragment whose anyOf has two elements, exactly one of them the bare
\* {type: "null"}, the adapter returns what it returns for the other element processed
\* as the whole fragment, with nullable: true added and no anyOf of the two-element
\* list (and fails where it fails on the other element); a fragment of scalar type
\* "null" and a two-element anyOf of two nulls are errors
NullableAnyOfCollapses ==
  "schema" \in DOMAIN arg /\ result # <<>> =>
    /\ NullableAnyOf(arg.schema) /\ "type" \notin DOMAIN arg.schema =>
         LET alone == ProcessJsonSchema(OtherElement(arg.schema))
         IN IF IsSchemaError(alone) THEN IsSchemaError(result[1])
            ELSE /\ ~IsSchemaError(result[1])
                 /\ result[1] = Put(alone, "nullable", TRUE)
    /\ arg.schema \in {NullSchema, [anyOf |-> <<NullSchema, NullSchema>>]} =>
         IsSchemaError(result[1])

\* ---- C21 ----

\* C21: the output of a converted fragment has no additionalProperties, and has every
\* field of the fragment other than type, items, anyOf and properties, with the value
\* the fragment gives it; so too the fields beside an anyOf that collapses to nullable
FieldsPassThrough ==
  "schema" \in DOMAIN arg /\ result # <<>> /\ ~IsSchemaError(result[1]) =>
    /\ "additionalProperties" \notin DOMAIN result[1]
    /\ \A f \in DOMAIN arg.schema \ SchemaFields :
         f \in DOMAIN result[1] /\ result[1][f] = arg.schema[f]

\* ---- C22 ----

GeminiCall == "request" \in DOMAIN arg /\ result # <<>> /\ result[1].call = "gemini-cli"

\* the tools of the request that are not the web search, and their declarations upstream
NamedTools ==
  IF "tools" \in DOMAIN arg.request
  THEN SelectSeq(arg.request.tools, LAMBDA tool : tool.function.name # "web_search")
  ELSE <<>>

DeclarationsSent == result[1].value.body.request.tools[1].functionDeclarations

\* C22: the declaration sent upstream for a tool whose parameter schema has no $schema
\* key carries the schema converted by the adapter; for a tool whose schema has the key
\* it carries the schema itself in parametersJsonSchema, and no parameters field
AdapterApplied ==
  GeminiCall /\ ~Throws(result[1].value) /\ NamedTools # <<>> =>
    /\ Len(DeclarationsSent) = Len(NamedTools)
    /\ \A i \in 1..Len(NamedTools) :
         LET schema == NamedTools[i].function.parameters
             sent == DeclarationsSent[i]
         IN IF "$schema" \in DOMAIN schema
            THEN /\ "parameters" \notin DOMAIN sent
                 /\ "parametersJsonSchema" \in DOMAIN sent
                 /\ sent.parametersJsonSchema = schema
            ELSE ~IsSchemaError(ProcessJsonSchema(schema)) =>
                   /\ "parameters" \in DOMAIN sent
                   /\ sent.parameters = ProcessJsonSchema(schema)

\* ---- C23 ----

\* the adapter fails on the parameter schema of some tool of the request
SchemaFails ==
  \E i \in 1..Len(NamedTools) :
    /\ "$schema" \notin DOMAIN NamedTools[i].function.parameters
    /\ IsSchemaError(ProcessJsonSchema(NamedTools[i].function.parameters))

\* C23: when a tool of the request has a parameter schema, without $schema key, with a
\* fragment that has both type and anyOf or only the type "null", the Cloud-Code request
\* transform throws and returns no {body, config}
SchemaErrorSurfaced ==
  GeminiCall /\ SchemaFails => Throws(result[1].value)

\* ---- C24 ----

RequestCall == "request" \in DOMAIN arg /\ result # <<>> /\ ~Throws(result[1].value)

PlainMessages ==
  \A i \in 1..Len(arg.request.messages) :
    arg.request.messages[i] \in {SystemBrief, SystemKind, UserHi, AssistantHello}

\* the text of a canonical message
TextOf(message) ==
  IF "string" \in DOMAIN message.content THEN message.content.string
  ELSE BlockTexts(message.content.blocks)

RECURSIVE JoinBlank(_)
JoinBlank(texts) ==
  IF texts = <<>> THEN ""
  ELSE IF Len(texts) = 1 THEN texts[1]
  ELSE texts[1] \o "\n\n" \o JoinBlank(Tail(texts))

SystemMessages == SelectSeq(arg.request.messages, LAMBDA m : m.role = "system")
OrdinaryMessages == SelectSeq(arg.request.messages, LAMBDA m : m.role # "system")

\* the ordinary turns of the upstream body, as the sequence of their roles and texts
TurnsSent ==
  LET body == result[1].value.body
  IN CASE result[1].call \in {"claude-anthropic", "kimi-anthropic"} ->
            [i \in 1..Len(body.messages) |->
               [role |-> body.messages[i].role, text |-> TextOf(body.messages[i])]]
       [] result[1].call = "gemini-cli" ->
            [i \in 1..Len(body.request.contents) |->
               [role |-> IF body.request.contents[i].role = "model" THEN "assistant" ELSE "user",
                text |-> JoinLines([j \in 1..Len(body.request.contents[i].parts) |->
                                      body.request.contents[i].parts[j].text])]]
       [] OTHER ->
            [i \in 1..Len(body.input) |->
               [role |-> body.input[i].role, text |-> body.input[i].content]]

\* the system or instructions field of the upstream body
SystemSent ==
  LET body == result[1].value.body
  IN CASE result[1].call \in {"claude-anthropic", "kimi-anthropic"} -> Get(body, "system")
       [] result[1].call = "gemini-cli" -> Get(body.request, "systemInstruction")
       [] OTHER -> Get(body, "instructions")

\* C24: in the upstream body of every request transcoder the ordinary turns are the
\* non-system messages of the request, in order, and the system field is the texts of
\* the system messages, in order, joined by a blank line
SystemExtracted ==
  RequestCall /\ PlainMessages =>
    /\ TurnsSent = [i \in 1..Len(OrdinaryMessages) |->
                      [role |-> OrdinaryMessages[i].role, text |-> TextOf(OrdinaryMessages[i])]]
    /\ SystemMessages # <<>> =>
         SystemSent = JoinBlank([i \in 1..Len(SystemMessages) |-> TextOf(SystemMessages[i])])

\* ---- C25 ----

AnthropicCall == RequestCall /\ result[1].call \in {"claude-anthropic", "kimi-anthropic"}

\* the base URL in force: the provider's, else the configured one, else the default
ConfiguredBaseUrl ==
  FirstTruthy(<<Get(arg.setting.provider, "api_base_url"),
                Get(arg.setting.options, "baseUrl"),
                IF result[1].call = "claude-anthropic" THEN "https://api.anthropic.com"
                ELSE "https://api.kimi.com/coding/">>)

WithoutTrailingSlash(url) == IF EndsWith(url, "/") THEN SubSeq(url, 1, Len(url) - 1) ELSE url

\* the endpoint of a base URL: the base itself when it ends with /v1/messages, else the
\* base, all its path segments kept, followed by one /v1/messages
Endpoint(baseUrl) ==
  IF EndsWith(WithoutTrailingSlash(baseUrl), "/v1/messages") THEN WithoutTrailingSlash(baseUrl)
  ELSE WithoutTrailingSlash(baseUrl) \o "/v1/messages"

\* the URL the same transcoder builds when its own result is the base URL
EndpointAgain ==
  LET provider == [api_base_url |-> result[1].value.config.url]
  IN IF result[1].call = "claude-anthropic"
     THEN ClaudeTransformRequestIn(arg.request, provider, arg.setting.options,
                                   arg.setting.env).config.url
     ELSE KimiTransformRequestIn(arg.request, provider, arg.setting.options,
                                 arg.setting.env).config.url

\* C25: the request URL of the Claude and Kimi transcoders is the endpoint of the base
\* URL in force, with or without a trailing slash on it, and building the URL from the
\* result gives the result
EndpointBuilt ==
  AnthropicCall =>
    /\ result[1].value.config.url = Endpoint(ConfiguredBaseUrl)
    /\ EndpointAgain = result[1].value.config.url
\* ---- C26 ----
RECURSIVE NewlineJoined(_)
NewlineJoined(texts) ==
  IF texts = <<>> THEN ""
  ELSE IF Len(texts) = 1 THEN texts[1]
  ELSE texts[1] \o "\n" \o NewlineJoined(Tail(texts))

BlocksOf(document) == IF "content" \in DOMAIN document THEN document.content ELSE <<>>

BlockTextsOf(document) ==
  LET texts == SelectSeq(BlocksOf(document), LAMBDA block : block.type = "text")
  IN [i \in 1..Len(texts) |-> texts[i].text]

ThoughtsOf(document) ==
  LET thoughts == SelectSeq(BlocksOf(document), LAMBDA block : block.type = "thinking")
  IN [i \in 1..Len(thoughts) |-> thoughts[i].thinking]

InvokedOf(document) ==
  LET uses == SelectSeq(BlocksOf(document), LAMBDA block : block.type = "tool_use")
  IN [i \in 1..Len(uses) |-> uses[i].name]

PartTextsOf(body) ==
  LET texts == SelectSeq(body.response.candidates[1].content.parts,
                         LAMBDA part : "text" \in DOMAIN part)
  IN [i \in 1..Len(texts) |-> texts[i].text]

PartCallsOf(body) ==
  LET calls == SelectSeq(body.response.candidates[1].content.parts,
                         LAMBDA part : "functionCall" \in DOMAIN part)
  IN [i \in 1..Len(calls) |-> calls[i].functionCall.name]

CalledNames(message) ==
  IF "tool_calls" \in DOMAIN message
  THEN [i \in 1..Len(message.tool_calls) |-> message.tool_calls[i].function.name]
  ELSE <<>>

Reasoning(message) ==
  IF "reasoning_content" \in DOMAIN message THEN message.reasoning_content ELSE ""

\* the side channels of the claim: thinking goes to reasoning_content only, tool
\* invocations to tool_calls only, both in document order
SideChannelsKept ==
  \A i \in 1..Len(result) :
    /\ "data" \in DOMAIN arg /\ result[i].call = "json" =>
         /\ Reasoning(result[i].response.choices[1].message) = JoinTexts(ThoughtsOf(arg.data))
         /\ CalledNames(result[i].response.choices[1].message) = InvokedOf(arg.data)
    /\ "body" \in DOMAIN arg =>
         CalledNames(result[i].response.choices[1].message) = PartCallsOf(arg.body)

\* C26: the assistant content of the canonical result of a non-stream document is the
\* texts of its text blocks, in document order, joined with a newline between
\* consecutive blocks; thinking blocks reach only reasoning_content and tool
\* invocations only tool_calls, in document order
TextExtracted ==
  /\ SideChannelsKept
  /\ \A i \in 1..Len(result) :
       /\ "data" \in DOMAIN arg /\ result[i].call = "json" =>
            result[i].response.choices[1].message.content = NewlineJoined(BlockTextsOf(arg.data))
       /\ "body" \in DOMAIN arg =>
            result[i].response.choices[1].message.content = NewlineJoined(PartTextsOf(arg.body))

\* the Cloud-Code branch alone
GeminiTextExtracted ==
  \A i \in 1..Len(result) :
    "body" \in DOMAIN arg =>
      result[i].response.choices[1].message.content = NewlineJoined(PartTextsOf(arg.body))
\* ---- C27 ----
\* a stream processed alone: the calls of the read loop on its own deliveries
RECURSIVE AloneAfter(_, _)
AloneAfter(t, reads) ==
  IF reads = <<>> THEN [closure |-> OpenStream.closure, out |-> <<>>]
  ELSE LET before == AloneAfter(t, SubSeq(reads, 1, Len(reads) - 1))
       IN ReadStep(t, before.closure, before.out, reads[Len(reads)])

Alone(t, stream) ==
  LET r == AloneAfter(t, stream.reads)
  IN [pc |-> stream.pc, reads |-> stream.reads, closure |-> r.closure,
      out |-> IF stream.pc = "closed" THEN DoneStep(t, r.closure, r.out) ELSE r.out]

\* C27: with the reads of two streams of one instance interleaved in any order, each
\* stream's output records, stream state, tool-call buffer and framing buffer are
\* those the stream has when it is processed alone
StreamsIsolated ==
  \A i \in DOMAIN streams : streams[i] = Alone(transformer, streams[i])

\* the first stream has captured a message id and buffered a tool call, the second,
\* read in between, has emitted a chunk and holds none of it
StreamsInterleaved ==
  /\ DOMAIN streams = StreamIds
  /\ transformer = "claude"
  /\ streams[1].closure.state.messageId = "msg_1"
  /\ streams[1].closure.state.toolCallsBuffer # <<>>
  /\ Len(streams[2].reads) = 1
  /\ Len(streams[2].out) = 1
  /\ streams[2].closure.state = InitState
\* ---- C28 ----
\* no key or token for the called transcoder in any of its sources
NoCredentials(call, setting) ==
  CASE call \in {"claude-anthropic", "kimi-anthropic"} ->
         /\ "api_key" \notin DOMAIN setting.provider
         /\ "apiKey" \notin DOMAIN setting.options
         /\ "ANTHROPIC_API_KEY" \notin DOMAIN setting.env
    [] call = "gemini-cli" ->
         "gemini" \notin DOMAIN setting.files \/ "access_token" \notin DOMAIN setting.files.gemini
    [] call = "chatgpt-oauth" ->
         \/ "codex" \notin DOMAIN setting.files
         \/ "tokens" \notin DOMAIN setting.files.codex
         \/ "access_token" \notin DOMAIN setting.files.codex.tokens

\* no credentials file was loaded at construction
NotLoaded(call, setting) ==
  \/ call = "gemini-cli" /\ "gemini" \notin DOMAIN setting.files
  \/ call = "chatgpt-oauth" /\ "codex" \notin DOMAIN setting.files

\* C28: a request transform called with no API key or token available from any source
\* fails with an error and returns no {body, config}
MissingCredentialsFail ==
  ("request" \in DOMAIN arg /\ result # <<>> /\ NoCredentials(result[1].call, arg.setting))
    => Throws(result[1].value)

\* the OAuth transcoders whose credentials file was not loaded
UnloadedCredentialsFail ==
  ("request" \in DOMAIN arg /\ result # <<>> /\ NotLoaded(result[1].call, arg.setting))
    => Throws(result[1].value)

\* a request is returned only with an auth header, and the header holds a credential
AuthHeaderSent ==
  RequestCall =>
    LET headers == result[1].value.config.headers
    IN IF result[1].call \in {"claude-anthropic", "kimi-anthropic"}
       THEN "x-api-key" \in DOMAIN headers /\ headers["x-api-key"] # undefined
       ELSE headers.Authorization # "Bearer undefined"
\* ---- C29 ----
\* C29: when the upstream of a Cloud-Code stream completes cleanly, the output ends
\* with exactly one [DONE] record, after the last canonical chunk
CloudCodeEndsWithSentinel ==
  (transformer = "gemini" /\ pc = "closed") =>
    /\ Cardinality(Sentinels) = 1
    /\ out[Len(out)] = DONE

\* what the Cloud-Code stream holds at clean completion: canonical chunks only
CloudCodeEndsWithoutSentinel ==
  (transformer = "gemini" /\ pc = "closed") =>
    /\ Sentinels = {}
    /\ \A i \in 1..Len(out) : IsChunk(out[i])
\* ---- C30 ----
MessageStarts == SelectSeq(fed, IsMessageStart)

\* what a message_start event holds for the stream: id, model, input tokens
Captured(event) ==
  LET message == IF "message" \in DOMAIN event THEN event.message ELSE EmptyObject
      usage == IF "usage" \in DOMAIN message THEN message.usage ELSE EmptyObject
  IN [id |-> IF "id" \in DOMAIN message THEN message.id ELSE GeneratedId,
      model |-> IF "model" \in DOMAIN message THEN message.model ELSE "",
      inputTokens |-> IF "input_tokens" \in DOMAIN usage THEN usage.input_tokens ELSE 0]

LastStart == Captured(MessageStarts[Len(MessageStarts)])

LastRoleChunk == CHOOSE k \in RoleChunks : \A j \in RoleChunks : j <= k

\* the state and the role chunk of the latest message_start
StartCaptured ==
  /\ state.messageId = LastStart.id
  /\ state.model = LastStart.model
  /\ state.inputTokens = LastStart.inputTokens
  /\ state.hasEmittedRole

RoleChunkEmitted ==
  /\ Cardinality(RoleChunks) = Len(MessageStarts)
  /\ out[LastRoleChunk].id = LastStart.id
  /\ out[LastRoleChunk].model = LastStart.model
  /\ Delta(out[LastRoleChunk]) = [role |-> "assistant", content |-> ""]
  /\ FinishReason(out[LastRoleChunk]) = null

ChunksCarryStart ==
  \A j \in ChunksOut :
    j > LastRoleChunk => out[j].id = LastStart.id /\ out[j].model = LastStart.model

\* C30: a message_start event captures id, model and input-token count into the
\* stream state, sets the role-emitted flag and emits exactly one chunk with delta
\* {role: assistant, content: ""} and finish_reason null; every chunk emitted after
\* it, until another message_start, carries the captured id and model
StreamStarted ==
  (transformer = "claude" /\ MessageStarts # <<>>) =>
    StartCaptured /\ RoleChunkEmitted /\ ChunksCarryStart

\* the same on streams whose message_start events all name a model
StreamStartedWithModel ==
  (/\ transformer = "claude" /\ MessageStarts # <<>>
   /\ \A i \in 1..Len(MessageStarts) :
        "message" \in DOMAIN MessageStarts[i] /\ "model" \in DOMAIN MessageStarts[i].message) =>
    StartCaptured /\ RoleChunkEmitted /\ ChunksCarryStart

\* the same on streams with one message_start
StreamStartedOnce ==
  (transformer = "claude" /\ Len(MessageStarts) = 1) =>
    StartCaptured /\ RoleChunkEmitted /\ ChunksCarryStart

\* the role chunk alone
RoleChunkAlways ==
  (transformer = "claude" /\ MessageStarts # <<>>) => RoleChunkEmitted

\* the chunks after the role chunk alone
ChunksCarryStartAlways ==
  (transformer = "claude" /\ MessageStarts # <<>>) => ChunksCarryStart

\* ---- C31 ----
\* the events of the upstream that start a tool call and that carry an argument
\* fragment, as id and name, and as fragment
ToolStartSent(e) ==
  IF transformer = "claude" THEN IsToolStart(e)
  ELSE /\ Get(e, "type") = "response.output_item.added"
       /\ "item" \in DOMAIN e /\ Get(e.item, "type") = "function_call"

FragmentSent(e) ==
  IF transformer = "claude" THEN IsBlockDelta(e, "input_json_delta")
  ELSE Get(e, "type") = "response.function_call_arguments.delta"

StartsSent == SelectSeq(fed, ToolStartSent)

StartId(e) == IF transformer = "claude" THEN e.content_block.id ELSE e.item.call_id
StartName(e) == IF transformer = "claude" THEN e.content_block.name ELSE e.item.name
FragmentOf(e) == IF transformer = "claude" THEN e.delta.partial_json ELSE e.delta

\* the fragments that arrive after some tool call was started
FragmentsAfterStart ==
  LET at == {i \in 1..Len(fed) :
               FragmentSent(fed[i]) /\ \E j \in 1..(i - 1) : ToolStartSent(fed[j])}
      F == SelectSeq([i \in 1..Len(fed) |-> [at |-> i, event |-> fed[i]]],
                     LAMBDA p : p.at \in at)
  IN [i \in 1..Len(F) |-> FragmentOf(F[i].event)]

ToolChunk(c) == IsChunk(c) /\ "tool_calls" \in DOMAIN Delta(c)
Announces(c) == ToolChunk(c) /\ "id" \in DOMAIN Delta(c).tool_calls[1]
CarriesFragment(c) == ToolChunk(c) /\ "id" \notin DOMAIN Delta(c).tool_calls[1]

Announcements == SelectSeq(out, Announces)
FragmentPositions == {j \in 1..Len(out) : CarriesFragment(out[j])}
AnnouncedBefore(j) == Cardinality({i \in 1..(j - 1) : Announces(out[i])})

\* the k-th start is announced once, as index k - 1, with its id, name and no arguments
StartsAnnounced ==
  /\ Len(Announcements) = Len(StartsSent)
  /\ \A k \in 1..Len(Announcements) :
       /\ Len(Delta(Announcements[k]).tool_calls) = 1
       /\ Delta(Announcements[k]).tool_calls[1] =
            [index |-> k - 1, id |-> StartId(StartsSent[k]), type |-> "function",
             function |-> [name |-> StartName(StartsSent[k]), arguments |-> ""]]

\* a fragment chunk holds the fragment and the latest announced index, nothing else
FragmentsIndexed ==
  /\ \A j \in FragmentPositions :
       /\ AnnouncedBefore(j) >= 1
       /\ Len(Delta(out[j]).tool_calls) = 1
       /\ DOMAIN Delta(out[j]).tool_calls[1] = {"index", "function"}
       /\ Delta(out[j]).tool_calls[1].index = AnnouncedBefore(j) - 1
       /\ DOMAIN Delta(out[j]).tool_calls[1].function = {"arguments"}
  /\ LET C == SelectSeq(out, CarriesFragment)
     IN [i \in 1..Len(C) |-> Delta(C[i]).tool_calls[1].function.arguments]
          = FragmentsAfterStart

\* a stream that has sent fragments only, and is still read, has emitted nothing and
\* is in its first state
EarlyFragmentDropped ==
  (pc = "reading" /\ fed # <<>> /\ \A i \in 1..Len(fed) : FragmentSent(fed[i])) =>
    /\ out = <<>>
    /\ state = InitState
    /\ codex = InitCodex

\* C31: in an Anthropic-style and in a Responses/Codex-style stream the k-th tool-call
\* start emits one chunk announcing index k (from 0) with its id, name and empty
\* arguments; a fragment chunk carries only the fragment and the index announced
\* last; a fragment that arrives before any tool call emits nothing and changes no state
ToolIndicesStable ==
  transformer \in {"claude", "chatgpt"} =>
    StartsAnnounced /\ FragmentsIndexed /\ EarlyFragmentDropped

\* two tool calls were announced, the second after a fragment for the first
ToolIndicesWitness ==
  /\ transformer \in {"claude", "chatgpt"}
  /\ Len(Announcements) = 2
  /\ FragmentPositions # {}
  /\ \E j \in FragmentPositions : AnnouncedBefore(j) = 1

\* a fragment arrived first and a tool call was started after it
EarlyFragmentWitness ==
  /\ transformer \in {"claude", "chatgpt"}
  /\ Len(fed) = 2
  /\ FragmentSent(fed[1])
  /\ ToolStartSent(fed[2])
  /\ Len(out) = 1

\* ---- C32 ----
\* the closure variables before and after the i-th event of the list, and what the
\* event enqueued
Before(i) == IF i = 1 THEN state ELSE result[i - 1].acc.state
After(i) == result[i].acc.state
Enqueued(i) == result[i].acc.out

Handled == IF "events" \in DOMAIN arg THEN 1..Len(result) ELSE {}

StopReasonOf(event) ==
  IF "delta" \in DOMAIN event THEN Get(event.delta, "stop_reason") ELSE undefined

\* the output-token count a message_delta event leaves
CountAfter(event, before) ==
  IF "usage" \in DOMAIN event THEN event.usage.output_tokens ELSE before.outputTokens

TerminalChunkOf(i) ==
  /\ After(i).outputTokens = CountAfter(arg.events[i], Before(i))
  /\ Len(Enqueued(i)) = 1
  /\ Delta(Enqueued(i)[1]) = EmptyObject
  /\ FinishReason(Enqueued(i)[1]) = StopReasonTable(StopReasonOf(arg.events[i]))
  /\ Enqueued(i)[1].usage =
       [prompt_tokens |-> Before(i).inputTokens,
        completion_tokens |-> CountAfter(arg.events[i], Before(i)),
        total_tokens |-> Before(i).inputTokens + CountAfter(arg.events[i], Before(i))]

\* C32: a message_delta event sets the output-token count to its usage.output_tokens,
\* keeps the count when it carries no usage, and emits one chunk with an empty delta,
\* the mapped stop reason, and usage made of the input-token count of the stream, the
\* updated output-token count and their sum
TerminalChunk ==
  \A i \in Handled : IsMessageDelta(arg.events[i]) => TerminalChunkOf(i)

\* the same for events whose usage, when present, holds a non-zero count
TerminalChunkNonZero ==
  \A i \in Handled :
    (/\ IsMessageDelta(arg.events[i])
     /\ "usage" \in DOMAIN arg.events[i] => arg.events[i].usage.output_tokens # 0)
      => TerminalChunkOf(i)

\* ---- C33 ----
IsBlockStop(e) == Get(e, "type") = "content_block_stop"

\* the latest event among the first i that starts or stops a block is a stop
StoppedAt(i) ==
  \E j \in 1..i :
    /\ IsBlockStop(arg.events[j])
    /\ \A k \in (j + 1)..i : ~IsBlockStart(arg.events[k])

\* a content_block_stop enqueues nothing
BlockStopSilent ==
  \A i \in Handled : IsBlockStop(arg.events[i]) => Enqueued(i) = <<>>

\* C33: after a content_block_stop event the current block type of the stream state
\* is null, and stays null until a content_block_start sets it; the event emits no chunk
BlockTypeCleared ==
  /\ BlockStopSilent
  /\ \A i \in Handled : StoppedAt(i) => After(i).currentBlockType = null

\* the stop of a block that no start had typed
BlockTypeClearedFromNull ==
  \A i \in Handled :
    (StoppedAt(i) /\ state.currentBlockType = null
       /\ \A j \in 1..i : ~IsBlockStart(arg.events[j]))
      => After(i).currentBlockType = null

\* ---- C34 ----
ThinkingFragments ==
  LET T == SelectSeq(fed, LAMBDA e : IsBlockDelta(e, "thinking_delta"))
  IN [i \in 1..Len(T) |-> T[i].delta.thinking]

ReasoningChunk(c) == IsChunk(c) /\ "reasoning_content" \in DOMAIN Delta(c)

EmittedReasoning ==
  LET R == SelectSeq(out, ReasoningChunk)
  IN [i \in 1..Len(R) |-> Delta(R[i]).reasoning_content]

\* C34: in an Anthropic-style stream each thinking_delta emits one chunk whose delta
\* holds reasoning_content, the fragment, and no content; each text_delta emits one
\* chunk whose delta holds content and no reasoning_content; the emitted
\* reasoning_content values, in order, are the thinking fragments in arrival order
ReasoningKeptApart ==
  transformer = "claude" =>
    /\ EmittedReasoning = ThinkingFragments
    /\ EmittedContent = TextFragments
    /\ Concat(EmittedReasoning) = Concat(ThinkingFragments)
    /\ \A i \in ChunksOut :
         /\ ReasoningChunk(out[i]) => DOMAIN Delta(out[i]) = {"reasoning_content"}
         /\ ContentChunk(out[i]) => DOMAIN Delta(out[i]) = {"content"}

\* a thinking fragment and a text fragment were sent, and one chunk of each kind is out
ReasoningWitness ==
  /\ transformer = "claude"
  /\ ThinkingFragments = <<"hm">>
  /\ TextFragments # <<>>
  /\ EmittedReasoning = <<"hm">>
  /\ EmittedContent # <<>>

\* ---- C35 ----
\* the one state object after the first i events of the list
RECURSIVE ReferenceState(_)
ReferenceState(i) ==
  IF i = 0 THEN state
  ELSE ProcessByReference(arg.events[i], ReferenceState(i - 1)).state

ReferenceChunks(i) == ProcessByReference(arg.events[i], ReferenceState(i - 1)).out

SameAsByReference(i) ==
  /\ After(i) = ReferenceState(i)
  /\ Enqueued(i) = ReferenceChunks(i)

\* C35: after each event the stream handler, which copies the closure variables into
\* a fresh state record and writes the returned fields back, has emitted the same
\* chunks and holds the same state as _processSSEEvent called on one state object
\* passed by reference across the events
ThreadingEquivalent ==
  \A i \in Handled : SameAsByReference(i)

\* the same for lists without a content_block_stop and without a message_start that
\* names no model
ThreadingEquivalentWithoutEmpties ==
  (/\ "events" \in DOMAIN arg
   /\ \A j \in 1..Len(arg.events) :
        /\ ~IsBlockStop(arg.events[j])
        /\ IsMessageStart(arg.events[j]) => "message" \in DOMAIN arg.events[j])
    => \A i \in Handled : SameAsByReference(i)

\* ---- C36 ----
\* C36: on the same upstream lines, in whatever split they are delivered, the Kimi and
\* the Claude stream transcoders have produced the same output records, the sentinel
\* included, hold the same stream state and carried line, and are in the same
\* terminal state
TwinsIdentical ==
  Len(streams) = 1 /\ "state" \in DOMAIN streams[1] =>
    /\ streams[1].out = out
    /\ streams[1].state = state
    /\ streams[1].buffer = buffer
    /\ streams[1].pc = pc

\* both have closed after a tool call with arguments and a terminal chunk
TwinsWitness ==
  /\ Len(streams) = 1 /\ "state" \in DOMAIN streams[1]
  /\ pc = "closed"
  /\ Len(fed) = 3
  /\ Len(streams[1].out) = 4
  /\ streams[1].state.toolCallsBuffer # <<>>
  /\ FinishChunks # {}

\* ---- C37 ----
Errored(calls) == \E i \in 1..Len(calls) : calls[i] = "error"

\* close is never called on a controller that error was called on
NoCloseAfterError ==
  \A j \in 1..Len(controllerCalls) :
    controllerCalls[j] = "close" => ~Errored(SubSeq(controllerCalls, 1, j - 1))

\* the output stream is in one terminal state at most, the one of the only call made
OneTerminalState ==
  /\ pc = "reading" <=> controllerCalls = <<>>
  /\ pc = "closed" => controllerCalls[1] = "close"
  /\ pc = "errored" => controllerCalls[1] = "error"

\* C37: the output stream reaches one terminal state, closed after a clean end and
\* errored after a read failure, and the handler never calls close on an output
\* stream it has put into the errored state
TerminationWellFormed ==
  OneTerminalState /\ NoCloseAfterError

\* nothing is enqueued once the terminal state is reached
NothingAfterTerminal ==
  [][pc # "reading" => (out' = out /\ pc' = pc)]_vars

\* an upstream that ends or fails brings the output stream to a terminal state
EventuallyTerminal == <>[](pc \in {"closed", "errored"})

\* ---- C38 ----
\* C38: a Responses stream that ended cleanly has one chunk with a finish_reason: it
\* has an empty delta, stands right before the [DONE] sentinel and says "stop"
\* whatever the events were; while the stream is read no chunk has a finish_reason
CodexFinishesWithStop ==
  transformer = "chatgpt" =>
    /\ pc = "reading" => FinishChunks = {}
    /\ pc = "closed" =>
         /\ Len(out) >= 2
         /\ out[Len(out)] = DONE
         /\ FinishChunks = {Len(out) - 1}
         /\ Delta(out[Len(out) - 1]) = EmptyObject
         /\ FinishReason(out[Len(out) - 1]) = "stop"

\* a Responses stream that announced a tool call, sent its arguments and has ended
CodexFinishWitness ==
  /\ transformer = "chatgpt" /\ pc = "closed"
  /\ \E i \in ChunksOut : Announces(out[i])
  /\ \E i \in ChunksOut : CarriesFragment(out[i])
  /\ FinishChunks # {}

\* ---- C39 ----
ProcessedChunk == "chunk" \in DOMAIN arg /\ result # <<>>
Candidate == arg.chunk.response.candidates[1]
CarriesToolCalls == \E k \in 1..Len(Candidate.content.parts) :
                      "functionCall" \in DOMAIN Candidate.content.parts[k]
ChoiceIndex == result[1].enqueued[1].choices[1].index
ZeroOrAbsent == "index" \notin DOMAIN Candidate \/ Candidate.index = 0

\* a chunk without tool calls whose candidate index is 0 or absent is emitted with index 0
ChoiceIndexZero ==
  (ProcessedChunk /\ ~CarriesToolCalls /\ ZeroOrAbsent)
    => (Len(result[1].enqueued) = 1 /\ ChoiceIndex = 0)

\* the emitted index is the candidate index whenever the candidate has one
ChoiceIndexIsCandidateIndex ==
  (ProcessedChunk /\ "index" \in DOMAIN Candidate)
    => (Len(result[1].enqueued) = 1 /\ ChoiceIndex = Candidate.index)

\* C39: the choice index of an emitted Cloud-Code chunk is 0 when the chunk has no
\* tool calls and its candidate index is 0 or absent, and it is the upstream candidate
\* index whenever that index is present, tool calls or not
ChoiceIndexFollowsCandidate ==
  ChoiceIndexZero /\ ChoiceIndexIsCandidateIndex

\* what the code computes: 1 when the candidate index is truthy or tool calls are
\* present, 0 otherwise
ChoiceIndexIsFlag ==
  ProcessedChunk =>
    /\ Len(result[1].enqueued) = 1
    /\ ChoiceIndex = IF CarriesToolCalls \/ ~ZeroOrAbsent
                     THEN 1 ELSE 0

\* the emitted index is the candidate index when that index is 1, or is 0 on a chunk
\* without tool calls
ChoiceIndexOfSmallIndex ==
  (ProcessedChunk /\ "index" \in DOMAIN Candidate
     /\ (Candidate.index = 1 \/ (Candidate.index = 0 /\ ~CarriesToolCalls)))
    => ChoiceIndex = Candidate.index
====
